---- MODULE Spec2Model ----
(***************************************************************************)
(* Model of the per-connection event loop of twitch-irc                    *)
(* (src/twitch-irc_local/src/connection/event_loop.rs): the consumer loop  *)
(* ConnectionLoopWorker::run, the three states Initializing / Open /       *)
(* Closed with their handlers, and the four background tasks (init,        *)
(* incoming forward, outgoing forward, ping).                              *)
(***************************************************************************)
EXTENDS Integers, Sequences, FiniteSets

\* ---------------------------------------------------------------- bounds
MaxEvents == 3   \* what the environment does to one connection: Sends
                 \* submitted, items read from the transport, timer
                 \* expirations, failed writes and the drop of the handle,
                 \* taken together
MaxQueue == 2    \* commands waiting on the (unbounded) command channel
NumConns == 2    \* connections whose init tasks share one rate limiter
Permits == 1     \* permits the shared connection_rate_limiter is built with
MaxLen == 5      \* characters of a line given to IRCMessage::parse
MaxParams == 3   \* parameters of a message built by a caller

\* ------------------------------------------------------------- constants
NewConnectionEvery == 2   \* config.new_connection_every, in seconds
ConnectTimeout == 20      \* config.connect_timeout, in seconds

VARIABLES
    state,              \* ConnectionLoopWorker.state: which variant is live
    reason_for_closure, \* ConnectionLoopClosedState.reason_for_closure
    pong_received,      \* ConnectionLoopOpenState.pong_received
    commands_queue,     \* ConnectionLoopInitializingState.commands_queue
    cmdq,               \* the connection_loop_tx / connection_loop_rx channel
    ownerAlive,         \* the strong handle of connection_loop_tx still exists
    workerAlive,        \* ConnectionLoopWorker::run is still looping
    panicked,           \* an unreachable!() handler was entered
    initTask,           \* run_init_task: "running" / "done"
    outq,               \* the outgoing_messages_tx / messages_rx channel
    outTxAlive,         \* ConnectionLoopOpenState.outgoing_messages_tx exists
    outTask,            \* run_outgoing_forward_task: none/idle/writing/ended
    inflight,           \* (message, reply_sender) the outgoing task is writing
    inTask,             \* run_incoming_forward_task: none/running/ended
    killIn,             \* kill_incoming_loop_tx has fired
    pingTask,           \* run_ping_task: none/running/ended
    killPing,           \* kill_pinger_tx has fired
    expired,            \* timer expirations so far (30, 35, 60, 65, ...)
    pingDue,            \* send_ping_interval ticks ready, not yet taken
    checkDue,           \* check_pong_interval ticks ready, not yet taken
    reads,              \* items read from transport_incoming so far
    wire,               \* messages given to transport_outgoing.send, in order
    writeErrors,        \* how many of those writes ended with an error
    pool,               \* what was sent on connection_incoming_tx, in order
    outcome,            \* per Send: what its oneshot reply_sender delivered
    resolveCount,       \* per Send: how often its reply_sender was used
    nextId,             \* number of Sends submitted so far
    pongSincePing,      \* history: a PONG was processed after the last SendPing
    pingProcessed,      \* history: a SendPing was processed while Open
    closedCount,        \* history: transitions into Closed
    lastProc,           \* history: the command process_command handled last
                        \* and the state that handled it
    handledIn,          \* history, per Send: the state that handled it
    atClose             \* history: the Sends whose unused reply sender was
                        \* in the state's queue when the state became Closed

\* the init tasks of NumConns connections and the semaphore they share
VARIABLES
    connection_rate_limiter, \* permits available in the semaphore
    initPos,            \* per connection: where run_init_task stands:
                        \* credentials / acquire / connect / end
    rate_limit_permit,  \* per connection: who owns its permit: none /
                        \* init (the init task) / release_task / returned
    init_res,           \* per connection: the res run_init_task reports
    connectTimer,       \* per connection: seconds the sleep(connect_timeout)
                        \* of the running connect attempt has run (0 once
                        \* the select! has dropped it)
    heldFor,            \* history, per connection: seconds since the permit
                        \* was taken, up to NewConnectionEvery; stops when
                        \* the permit is returned
    sinceConnected      \* per connection: seconds the release task's
                        \* sleep(new_connection_every) has run, up to its end

limiterVars == <<connection_rate_limiter, initPos, rate_limit_permit, init_res,
                 connectTimer, heldFor, sinceConnected>>

\* the wire codec: one line taken through parse, as_raw_irc and parse again
VARIABLES
    source,             \* the line given to IRCMessage::parse
    codecPos,           \* start / parsed / formatted / reparsed
    message,            \* IRCMessage::parse(source)
    raw,                \* message.as_raw_irc()
    reparsed            \* IRCMessage::parse(raw)

codecVars == <<source, codecPos, message, raw, reparsed>>

connVars == <<state, reason_for_closure, pong_received, commands_queue, cmdq,
          ownerAlive, workerAlive, panicked, initTask, outq, outTxAlive,
          outTask, inflight, inTask, killIn, pingTask, killPing, expired,
          pingDue, checkDue, reads, wire, writeErrors, pool, outcome, resolveCount, nextId,
          pongSincePing, pingProcessed, closedCount, lastProc, handledIn,
          atClose>>

\* how the crate was built
VARIABLES
    metrics_collection  \* cfg(feature = "metrics-collection") is on

buildVars == <<metrics_collection>>

vars == <<connVars, limiterVars, codecVars, buildVars>>

\* ------------------------------------------------------------ vocabulary
Ids == 1..MaxEvents

\* Error<T, L> variants that reach this loop
InitErrors == {"LoginError", "ConnectError", "ConnectTimeout"}
Reasons == InitErrors \cup {"OutgoingError", "IncomingError", "IRCParseError",
                            "RemoteUnexpectedlyClosedConnection",
                            "ReconnectCmd", "PingTimeout"}

\* what transport_incoming.next() can yield: an IRC message (by the
\* ServerMessage it converts to; "BADSEM" fails ServerMessage::try_from),
\* Some(Err(Left)) = read error, Some(Err(Right)) = line is not valid IRC,
\* None = end of stream
InMessages == {"PING", "PONG", "RECONNECT", "OTHER", "BADSEM"}
InEvents == InMessages \cup {"ReadErr", "DecodeErr", "EOF"}

NoMsg == [kind |-> "NONE", id |-> 0, notify |-> FALSE]
\* irc![...] messages the loop builds itself; reply_sender is None
OwnMsg(k) == [kind |-> k, id |-> 0, notify |-> FALSE]
\* a message of ConnectionLoopCommand::SendMessage(message, reply_sender)
AppMsg(i, n) == [kind |-> "APP", id |-> i, notify |-> n]

\* the n-th item transport_incoming yielded
InMsg(n) == [kind |-> "IN", id |-> n, notify |-> FALSE]

Cmd(t, m, a) == [type |-> t, msg |-> m, arg |-> a]

\* mpsc::UnboundedSender::send(..).ok() through a Weak handle that upgraded:
\* the item is queued unless the receiver is gone
Enqueue(q, c) == IF workerAlive THEN Append(q, c) ELSE q
\* the bound on the channel: a producer that would exceed it waits
Room == Len(cmdq) < MaxQueue \/ ~workerAlive \/ ~ownerAlive
\* the bound on what the environment does to one connection
Budget ==
    nextId + reads + expired + writeErrors + (IF ownerAlive THEN 0 ELSE 1)
        < MaxEvents

\* reply_sender.send(val).ok() for one (message, reply_sender)
ResolveOne(f, m, val) == IF m.notify THEN [f EXCEPT ![m.id] = val] ELSE f
CountOne(c, m) == IF m.notify THEN [c EXCEPT ![m.id] = @ + 1] ELSE c

HasNotifier(q, i) == \E k \in DOMAIN q : q[k].id = i /\ q[k].notify
\* the same for every element of a queue
ResolveAll(f, q, val) == [i \in Ids |-> IF HasNotifier(q, i) THEN val ELSE f[i]]
CountAll(c, q) == [i \in Ids |-> IF HasNotifier(q, i) THEN c[i] + 1 ELSE c[i]]

\* ------------------------------------------------------------------ Init
ConnInit ==
    /\ state = "Initializing"
    /\ reason_for_closure = "none"
    /\ pong_received = FALSE
    /\ commands_queue = <<>>
    /\ cmdq = <<>>
    /\ ownerAlive = TRUE
    /\ workerAlive = TRUE
    /\ panicked = FALSE
    /\ initTask = "running"
    /\ outq = <<>>
    /\ outTxAlive = FALSE
    /\ outTask = "none"
    /\ inflight = NoMsg
    /\ inTask = "none"
    /\ killIn = FALSE
    /\ pingTask = "none"
    /\ killPing = FALSE
    /\ expired = 0
    /\ pingDue = 0
    /\ checkDue = 0
    /\ reads = 0
    /\ wire = <<>>
    /\ writeErrors = 0
    /\ pool = <<>>
    /\ outcome = [i \in Ids |-> "unborn"]
    /\ resolveCount = [i \in Ids |-> 0]
    /\ nextId = 0
    /\ pongSincePing = FALSE
    /\ pingProcessed = FALSE
    /\ closedCount = 0
    /\ lastProc = [st |-> "none", type |-> "none", arg |-> ""]
    /\ handledIn = [i \in Ids |-> "none"]
    /\ atClose = {}

\* ------------------------------------------------- groups of variables
stVars == <<state, reason_for_closure>>
killVars == <<outTxAlive, killIn, killPing>>
spawnVars == <<outTask, inTask, pingTask>>
noteVars == <<outcome, resolveCount>>
histVars == <<pongSincePing, pingProcessed, closedCount, atClose>>
crashVars == <<workerAlive, panicked>>
\* what a command handler never touches
restVars == <<ownerAlive, initTask, inflight, expired, pingDue, checkDue,
              reads, wire, writeErrors, nextId>>

\* the messages of the SendMessage commands of a command queue
RECURSIVE SendMsgs(_)
SendMsgs(q) ==
    IF q = <<>> THEN <<>>
    ELSE IF Head(q).type = "SendMessage"
         THEN <<Head(q).msg>> \o SendMsgs(Tail(q))
         ELSE SendMsgs(Tail(q))

\* a oneshot::Sender dropped unused: the receiver sees the channel closed
DropAll(f, q) == [i \in Ids |-> IF HasNotifier(q, i) THEN "dropped" ELSE f[i]]

\* ---------------------------------------------------- INITIALIZING STATE
\* mutant: the queued reply senders are forgotten instead of answered
InitializingTransitionToClosed_Silent(err) ==
    /\ commands_queue' = <<>>
    /\ pool' = Append(pool, Cmd("StateClosed", NoMsg, err))
    /\ state' = "Closed"
    /\ reason_for_closure' = err
    /\ closedCount' = closedCount + 1
    /\ atClose' = {i \in Ids : HasNotifier(commands_queue, i)}
    /\ UNCHANGED <<pong_received, outq, killVars, spawnVars, noteVars,
                   pongSincePing, pingProcessed, crashVars>>

\* mutant: the pool is not told about the closure
InitializingTransitionToClosed_NoPool(err) ==
    /\ outcome' = ResolveAll(outcome, commands_queue, err)
    /\ resolveCount' = CountAll(resolveCount, commands_queue)
    /\ commands_queue' = <<>>
    /\ state' = "Closed"
    /\ reason_for_closure' = err
    /\ closedCount' = closedCount + 1
    /\ atClose' = {i \in Ids : HasNotifier(commands_queue, i)}
    /\ UNCHANGED <<pong_received, outq, killVars, spawnVars, pool,
                   pongSincePing, pingProcessed, crashVars>>

\* ConnectionLoopInitializingState::transition_to_closed
InitializingTransitionToClosed(err) ==
    /\ outcome' = ResolveAll(outcome, commands_queue, err)
    /\ resolveCount' = CountAll(resolveCount, commands_queue)
    /\ commands_queue' = <<>>
    /\ pool' = Append(pool, Cmd("StateClosed", NoMsg, err))
    /\ state' = "Closed"
    /\ reason_for_closure' = err
    /\ closedCount' = closedCount + 1
    /\ atClose' = {i \in Ids : HasNotifier(commands_queue, i)}
    /\ UNCHANGED <<pong_received, outq, killVars, spawnVars, pongSincePing,
                   pingProcessed, crashVars>>

\* mutant: push_front instead of push_back
InitializingSendMessage_PushFront(m) ==
    /\ commands_queue' = <<m>> \o commands_queue
    /\ UNCHANGED <<stVars, pong_received, outq, killVars, spawnVars, pool,
                   noteVars, histVars, crashVars>>

\* ConnectionLoopInitializingState::send_message
InitializingSendMessage(m) ==
    /\ commands_queue' = Append(commands_queue, m)
    /\ UNCHANGED <<stVars, pong_received, outq, killVars, spawnVars, pool,
                   noteVars, histVars, crashVars>>

\* mutant: NICK is sent before the first capability request
Handshake_NickFirst(hasToken) ==
    <<OwnMsg("NICK"), OwnMsg("CAP_TAGS")>>
    \o (IF hasToken THEN <<OwnMsg("PASS")>> ELSE <<>>)
    \o <<OwnMsg("CAP_MEMBERSHIP")>>

\* the messages on_transport_init_finished hands to new_state.send_message
\* before the queued ones
Handshake(hasToken) ==
    <<OwnMsg("CAP_TAGS")>>
    \o (IF hasToken THEN <<OwnMsg("PASS")>> ELSE <<>>)
    \o <<OwnMsg("NICK"), OwnMsg("CAP_MEMBERSHIP")>>

\* mutant: StateOpen is sent whatever the build
InitializingOnTransportInitFinished_AlwaysStateOpen(res) ==
    IF res \in {"OkToken", "OkNoToken"}
    THEN /\ inTask' = "running"
         /\ outTask' = "idle"
         /\ pingTask' = "running"
         /\ pool' = Append(pool, Cmd("StateOpen", NoMsg, ""))
         /\ state' = "Open"
         /\ pong_received' = FALSE
         /\ outTxAlive' = TRUE
         /\ outq' = outq \o Handshake(res = "OkToken") \o commands_queue
         /\ commands_queue' = <<>>
         /\ UNCHANGED <<reason_for_closure, killIn, killPing, noteVars,
                        histVars, crashVars>>
    ELSE InitializingTransitionToClosed(res)

\* ConnectionLoopInitializingState::on_transport_init_finished: the three
\* tasks are spawned, StateOpen is sent on connection_incoming_tx if the
\* crate is built with the metrics-collection feature, then the Open state
\* is built with the handshake and the queued messages in its channel
InitializingOnTransportInitFinished(res) ==
    IF res \in {"OkToken", "OkNoToken"}
    THEN /\ inTask' = "running"
         /\ outTask' = "idle"
         /\ pingTask' = "running"
         /\ pool' = IF metrics_collection
                    THEN Append(pool, Cmd("StateOpen", NoMsg, ""))
                    ELSE pool
         /\ state' = "Open"
         /\ pong_received' = FALSE
         /\ outTxAlive' = TRUE
         /\ outq' = outq \o Handshake(res = "OkToken") \o commands_queue
         /\ commands_queue' = <<>>
         /\ UNCHANGED <<reason_for_closure, killIn, killPing, noteVars,
                        histVars, crashVars>>
    ELSE InitializingTransitionToClosed(res)

\* ConnectionLoopInitializingState::on_send_error
InitializingOnSendError ==
    InitializingTransitionToClosed("OutgoingError")

\* ---------------------------------------------------------- OPEN STATE
\* mutant: the pool is told about the closure before it gets the message
\* the handler forwarded
OpenTransitionToClosed_NotifiesFirst(cause, p) ==
    /\ pool' = Append(pool, Cmd("StateClosed", NoMsg, cause))
                \o SubSeq(p, Len(pool) + 1, Len(p))
    /\ killIn' = TRUE
    /\ killPing' = TRUE
    /\ outTxAlive' = FALSE
    /\ state' = "Closed"
    /\ reason_for_closure' = cause
    /\ closedCount' = closedCount + 1
    /\ atClose' = {i \in Ids : HasNotifier(outq, i)}
    /\ UNCHANGED <<pong_received, commands_queue, outq, spawnVars, noteVars,
                   pongSincePing, pingProcessed, crashVars>>

\* mutant: closing discards what the outgoing forward task has not taken
OpenTransitionToClosed_DropsQueued(cause, p) ==
    /\ pool' = Append(p, Cmd("StateClosed", NoMsg, cause))
    /\ killIn' = TRUE
    /\ killPing' = TRUE
    /\ outTxAlive' = FALSE
    /\ outq' = <<>>
    /\ state' = "Closed"
    /\ reason_for_closure' = cause
    /\ closedCount' = closedCount + 1
    /\ atClose' = {i \in Ids : HasNotifier(outq, i)}
    /\ UNCHANGED <<pong_received, commands_queue, spawnVars, noteVars,
                   pongSincePing, pingProcessed, crashVars>>

\* mutant: the Drop of the Open state leaves the pinger alone
OpenTransitionToClosed_KeepsPinger(cause, p) ==
    /\ pool' = Append(p, Cmd("StateClosed", NoMsg, cause))
    /\ killIn' = TRUE
    /\ outTxAlive' = FALSE
    /\ state' = "Closed"
    /\ reason_for_closure' = cause
    /\ closedCount' = closedCount + 1
    /\ atClose' = {i \in Ids : HasNotifier(outq, i)}
    /\ UNCHANGED <<pong_received, commands_queue, outq, spawnVars, noteVars,
                   killPing, pongSincePing, pingProcessed, crashVars>>

\* ConnectionLoopOpenState::transition_to_closed followed by the Drop of
\* the consumed Open state; p is the pool channel as the handler left it
OpenTransitionToClosed(cause, p) ==
    /\ pool' = Append(p, Cmd("StateClosed", NoMsg, cause))
    /\ killIn' = TRUE
    /\ killPing' = TRUE
    /\ outTxAlive' = FALSE
    /\ state' = "Closed"
    /\ reason_for_closure' = cause
    /\ closedCount' = closedCount + 1
    /\ atClose' = {i \in Ids : HasNotifier(outq, i)}
    /\ UNCHANGED <<pong_received, commands_queue, outq, spawnVars, noteVars,
                   pongSincePing, pingProcessed, crashVars>>

\* mutant: the sender is answered when the message is forwarded, and again
\* when it is written
OpenSendMessage_RepliesEarly(m) ==
    /\ outq' = Append(outq, m)
    /\ outcome' = ResolveOne(outcome, m, "Ok")
    /\ resolveCount' = CountOne(resolveCount, m)
    /\ UNCHANGED <<stVars, pong_received, commands_queue, killVars, spawnVars,
                   pool, histVars, crashVars>>

\* ConnectionLoopOpenState::send_message
OpenSendMessage(m) ==
    /\ outq' = Append(outq, m)
    /\ UNCHANGED <<stVars, pong_received, commands_queue, killVars, spawnVars,
                   pool, noteVars, histVars, crashVars>>

\* mutant: a failed write is ignored
OpenOnSendError_Ignores ==
    UNCHANGED <<stVars, pong_received, commands_queue, outq, killVars,
                spawnVars, pool, noteVars, histVars, crashVars>>

\* ConnectionLoopOpenState::on_send_error
OpenOnSendError ==
    OpenTransitionToClosed("OutgoingError", pool)

\* mutant: a PING is forwarded to the pool but not answered
OpenOnIncomingMessage_NoPong(ev) ==
    CASE ev = "EOF" ->
           OpenTransitionToClosed("RemoteUnexpectedlyClosedConnection", pool)
      [] ev = "ReadErr" ->
           OpenTransitionToClosed("IncomingError", pool)
      [] ev = "DecodeErr" ->
           OpenTransitionToClosed("IRCParseError", pool)
      [] ev = "RECONNECT" ->
           OpenTransitionToClosed("ReconnectCmd",
               Append(pool, Cmd("IncomingMessage", Head(cmdq).msg, ev)))
      [] ev = "BADSEM" ->
           /\ pool' = Append(pool, Cmd("IncomingMessage", Head(cmdq).msg, "GENERIC"))
           /\ UNCHANGED <<stVars, pong_received, commands_queue, outq,
                          killVars, spawnVars, noteVars, histVars, crashVars>>
      [] ev = "PING" ->
           /\ pool' = Append(pool, Cmd("IncomingMessage", Head(cmdq).msg, ev))
           /\ UNCHANGED <<stVars, pong_received, commands_queue, outq, killVars,
                          spawnVars, noteVars, histVars, crashVars>>
      [] ev = "PONG" ->
           /\ pool' = Append(pool, Cmd("IncomingMessage", Head(cmdq).msg, ev))
           /\ pong_received' = TRUE
           /\ pongSincePing' = TRUE
           /\ UNCHANGED <<stVars, commands_queue, outq, killVars, spawnVars,
                          noteVars, pingProcessed, closedCount, atClose,
                          crashVars>>
      [] OTHER ->
           /\ pool' = Append(pool, Cmd("IncomingMessage", Head(cmdq).msg, ev))
           /\ UNCHANGED <<stVars, pong_received, commands_queue, outq,
                          killVars, spawnVars, noteVars, histVars, crashVars>>

\* mutant: a PONG sets the flag but is not forwarded to the pool
OpenOnIncomingMessage_PongNotForwarded(ev) ==
    CASE ev = "EOF" ->
           OpenTransitionToClosed("RemoteUnexpectedlyClosedConnection", pool)
      [] ev = "ReadErr" ->
           OpenTransitionToClosed("IncomingError", pool)
      [] ev = "DecodeErr" ->
           OpenTransitionToClosed("IRCParseError", pool)
      [] ev = "RECONNECT" ->
           OpenTransitionToClosed("ReconnectCmd",
               Append(pool, Cmd("IncomingMessage", Head(cmdq).msg, ev)))
      [] ev = "BADSEM" ->
           /\ pool' = Append(pool, Cmd("IncomingMessage", Head(cmdq).msg, "GENERIC"))
           /\ UNCHANGED <<stVars, pong_received, commands_queue, outq,
                          killVars, spawnVars, noteVars, histVars, crashVars>>
      [] ev = "PING" ->
           /\ pool' = Append(pool, Cmd("IncomingMessage", Head(cmdq).msg, ev))
           /\ outq' = Append(outq, OwnMsg("PONG"))
           /\ UNCHANGED <<stVars, pong_received, commands_queue, killVars,
                          spawnVars, noteVars, histVars, crashVars>>
      [] ev = "PONG" ->
           /\ pool' = pool
           /\ pong_received' = TRUE
           /\ pongSincePing' = TRUE
           /\ UNCHANGED <<stVars, commands_queue, outq, killVars, spawnVars,
                          noteVars, pingProcessed, closedCount, atClose,
                          crashVars>>
      [] OTHER ->
           /\ pool' = Append(pool, Cmd("IncomingMessage", Head(cmdq).msg, ev))
           /\ UNCHANGED <<stVars, pong_received, commands_queue, outq,
                          killVars, spawnVars, noteVars, histVars, crashVars>>

\* ConnectionLoopOpenState::on_incoming_message, for the command at the
\* head of the channel
OpenOnIncomingMessage(ev) ==
    CASE ev = "EOF" ->
           OpenTransitionToClosed("RemoteUnexpectedlyClosedConnection", pool)
      [] ev = "ReadErr" ->
           OpenTransitionToClosed("IncomingError", pool)
      [] ev = "DecodeErr" ->
           OpenTransitionToClosed("IRCParseError", pool)
      [] ev = "RECONNECT" ->
           OpenTransitionToClosed("ReconnectCmd",
               Append(pool, Cmd("IncomingMessage", Head(cmdq).msg, ev)))
      [] ev = "BADSEM" ->
           /\ pool' = Append(pool, Cmd("IncomingMessage", Head(cmdq).msg, "GENERIC"))
           /\ UNCHANGED <<stVars, pong_received, commands_queue, outq,
                          killVars, spawnVars, noteVars, histVars, crashVars>>
      [] ev = "PING" ->
           /\ pool' = Append(pool, Cmd("IncomingMessage", Head(cmdq).msg, ev))
           /\ outq' = Append(outq, OwnMsg("PONG"))
           /\ UNCHANGED <<stVars, pong_received, commands_queue, killVars,
                          spawnVars, noteVars, histVars, crashVars>>
      [] ev = "PONG" ->
           /\ pool' = Append(pool, Cmd("IncomingMessage", Head(cmdq).msg, ev))
           /\ pong_received' = TRUE
           /\ pongSincePing' = TRUE
           /\ UNCHANGED <<stVars, commands_queue, outq, killVars, spawnVars,
                          noteVars, pingProcessed, closedCount, atClose,
                          crashVars>>
      [] OTHER ->
           /\ pool' = Append(pool, Cmd("IncomingMessage", Head(cmdq).msg, ev))
           /\ UNCHANGED <<stVars, pong_received, commands_queue, outq,
                          killVars, spawnVars, noteVars, histVars, crashVars>>

\* mutant: pong_received is not cleared
OpenSendPing_KeepsFlag ==
    /\ outq' = Append(outq, OwnMsg("PING"))
    /\ pongSincePing' = FALSE
    /\ pingProcessed' = TRUE
    /\ UNCHANGED <<stVars, pong_received, commands_queue, killVars, spawnVars,
                   pool, noteVars, closedCount, atClose, crashVars>>

\* ConnectionLoopOpenState::send_ping
OpenSendPing ==
    /\ pong_received' = FALSE
    /\ outq' = Append(outq, OwnMsg("PING"))
    /\ pongSincePing' = FALSE
    /\ pingProcessed' = TRUE
    /\ UNCHANGED <<stVars, commands_queue, killVars, spawnVars, pool,
                   noteVars, closedCount, atClose, crashVars>>

\* ConnectionLoopOpenState::check_pong
OpenCheckPong ==
    IF ~pong_received
    THEN OpenTransitionToClosed("PingTimeout", pool)
    ELSE UNCHANGED <<stVars, pong_received, commands_queue, outq, killVars,
                     spawnVars, pool, noteVars, histVars, crashVars>>

\* -------------------------------------------------------- CLOSED STATE
\* mutant: the reply sender is dropped without an answer
ClosedSendMessage_NoReply(m) ==
    /\ outcome' = DropAll(outcome, <<m>>)
    /\ UNCHANGED <<stVars, pong_received, commands_queue, outq, killVars,
                   spawnVars, pool, resolveCount, histVars, crashVars>>

\* ConnectionLoopClosedState::send_message
ClosedSendMessage(m) ==
    /\ outcome' = ResolveOne(outcome, m, reason_for_closure)
    /\ resolveCount' = CountOne(resolveCount, m)
    /\ UNCHANGED <<stVars, pong_received, commands_queue, outq, killVars,
                   spawnVars, pool, histVars, crashVars>>

\* mutant: a command handled while Closed reopens the connection
ClosedStay_Reopens ==
    /\ state' = "Open"
    /\ UNCHANGED <<reason_for_closure, pong_received, commands_queue, outq,
                   killVars, spawnVars, pool, noteVars, histVars, crashVars>>

\* mutant: a command handled while Closed reports the closure again
ClosedStay_Renotifies ==
    /\ pool' = Append(pool, Cmd("StateClosed", NoMsg, reason_for_closure))
    /\ UNCHANGED <<stVars, pong_received, commands_queue, outq, killVars,
                   spawnVars, noteVars, histVars, crashVars>>

\* mutant: a failed write reported while Closed replaces the stored reason
ClosedStay_OverwritesReason ==
    /\ reason_for_closure' = "OutgoingError"
    /\ UNCHANGED <<state, pong_received, commands_queue, outq, killVars,
                   spawnVars, pool, noteVars, histVars, crashVars>>

\* mutant: a Closed connection still tells the pool what it handles
ClosedStay_Forwards ==
    /\ pool' = Append(pool, Cmd("IncomingMessage", Head(cmdq).msg,
                                Head(cmdq).arg))
    /\ UNCHANGED <<stVars, pong_received, commands_queue, outq, killVars,
                   spawnVars, noteVars, histVars, crashVars>>

\* ConnectionLoopClosedState: on_transport_init_finished, on_send_error,
\* on_incoming_message, send_ping, check_pong
ClosedStay ==
    UNCHANGED <<stVars, pong_received, commands_queue, outq, killVars,
                spawnVars, pool, noteVars, histVars, crashVars>>

\* ------------------------------------------------------ the worker loop
\* unreachable!(): the worker task panics; unwinding drops the state (an
\* Initializing state with its queued reply senders, an Open state through
\* its Drop) and the receiver with whatever is still queued on it
Unreachable ==
    /\ panicked' = TRUE
    /\ workerAlive' = FALSE
    /\ outcome' = DropAll(DropAll(outcome, commands_queue),
                          SendMsgs(Tail(cmdq)))
    /\ commands_queue' = <<>>
    /\ killIn' = (killIn \/ state = "Open")
    /\ killPing' = (killPing \/ state = "Open")
    /\ outTxAlive' = FALSE
    /\ UNCHANGED <<stVars, pong_received, outq, spawnVars, pool, resolveCount,
                   histVars>>

\* mutant: the command behind the head is lost
Rest_SkipsOne == IF Len(cmdq) >= 2 THEN Tail(Tail(cmdq)) ELSE <<>>

\* what is left on the command channel after the head was taken
Rest == IF workerAlive' THEN Tail(cmdq) ELSE <<>>

Receives(t) ==
    /\ workerAlive
    /\ cmdq # <<>>
    /\ Head(cmdq).type = t
    /\ lastProc' = [st |-> state, type |-> t, arg |-> Head(cmdq).arg]

\* process_command, ConnectionLoopCommand::SendMessage
ProcessSendMessage ==
    /\ Receives("SendMessage")
    /\ CASE state = "Initializing" -> InitializingSendMessage(Head(cmdq).msg)
         [] state = "Open" -> OpenSendMessage(Head(cmdq).msg)
         [] OTHER -> ClosedSendMessage(Head(cmdq).msg)
    /\ handledIn' = [handledIn EXCEPT ![Head(cmdq).msg.id] = state]
    /\ cmdq' = Rest
    /\ UNCHANGED restVars

\* process_command, ConnectionLoopCommand::TransportInitFinished
ProcessTransportInitFinished ==
    /\ Receives("TransportInitFinished")
    /\ CASE state = "Initializing" ->
              InitializingOnTransportInitFinished(Head(cmdq).arg)
         [] state = "Open" -> Unreachable
         [] OTHER -> ClosedStay
    /\ cmdq' = Rest
    /\ UNCHANGED <<restVars, handledIn>>

\* process_command, ConnectionLoopCommand::SendError
ProcessSendError ==
    /\ Receives("SendError")
    /\ CASE state = "Initializing" -> InitializingOnSendError
         [] state = "Open" -> OpenOnSendError
         [] OTHER -> ClosedStay
    /\ cmdq' = Rest
    /\ UNCHANGED <<restVars, handledIn>>

\* process_command, ConnectionLoopCommand::IncomingMessage
ProcessIncomingMessage ==
    /\ Receives("IncomingMessage")
    /\ CASE state = "Initializing" -> Unreachable
         [] state = "Open" -> OpenOnIncomingMessage(Head(cmdq).arg)
         [] OTHER -> ClosedStay
    /\ cmdq' = Rest
    /\ UNCHANGED <<restVars, handledIn>>

\* process_command, ConnectionLoopCommand::SendPing
ProcessSendPing ==
    /\ Receives("SendPing")
    /\ CASE state = "Initializing" -> Unreachable
         [] state = "Open" -> OpenSendPing
         [] OTHER -> ClosedStay
    /\ cmdq' = Rest
    /\ UNCHANGED <<restVars, handledIn>>

\* process_command, ConnectionLoopCommand::CheckPong
ProcessCheckPong ==
    /\ Receives("CheckPong")
    /\ CASE state = "Initializing" -> Unreachable
         [] state = "Open" -> OpenCheckPong
         [] OTHER -> ClosedStay
    /\ cmdq' = Rest
    /\ UNCHANGED <<restVars, handledIn>>

\* ConnectionLoopWorker::run when recv() yields None: every sender is gone
\* and the channel is empty; the loop ends and the worker, with its state,
\* is dropped
WorkerEnd ==
    /\ workerAlive
    /\ ~ownerAlive
    /\ cmdq = <<>>
    /\ workerAlive' = FALSE
    /\ outcome' = DropAll(outcome, commands_queue)
    /\ commands_queue' = <<>>
    /\ killIn' = (killIn \/ state = "Open")
    /\ killPing' = (killPing \/ state = "Open")
    /\ outTxAlive' = FALSE
    /\ UNCHANGED <<stVars, pong_received, cmdq, outq, spawnVars, pool,
                   resolveCount, histVars, panicked, restVars, lastProc,
                   handledIn>>

\* what no background task and no caller touches
loopVars == <<state, reason_for_closure, pong_received, commands_queue,
              outTxAlive, killIn, killPing, pool, histVars, crashVars,
              lastProc, handledIn>>
\* the transport's outgoing half, touched by the outgoing forward task only
wireVars == <<wire, writeErrors>>

\* ------------------------------------------------------ the application
\* a caller holding the connection sends
\* ConnectionLoopCommand::SendMessage(message, reply_sender) on
\* connection_loop_tx; reply_sender is an Option
SubmitSend(n) ==
    /\ ownerAlive
    /\ Room
    /\ Budget
    /\ nextId' = nextId + 1
    /\ cmdq' = Enqueue(cmdq, Cmd("SendMessage", AppMsg(nextId + 1, n), ""))
    /\ outcome' = IF n /\ workerAlive
                  THEN [outcome EXCEPT ![nextId + 1] = "pending"]
                  ELSE IF n THEN [outcome EXCEPT ![nextId + 1] = "dropped"]
                  ELSE outcome
    /\ UNCHANGED <<loopVars, ownerAlive, initTask, outq, spawnVars, inflight,
                   expired, pingDue, checkDue, reads, wireVars, resolveCount>>

\* the last strong handle of connection_loop_tx is dropped; from now on
\* every Weak::upgrade() of the background tasks fails
TearDown ==
    /\ ownerAlive
    /\ Budget
    /\ ownerAlive' = FALSE
    /\ UNCHANGED <<loopVars, cmdq, initTask, outq, spawnVars, inflight,
                   expired, pingDue, checkDue, reads, wireVars, noteVars, nextId>>

\* ------------------------------------------------------------ init task
\* mutant: the init task reports its result again and again
InitTaskFinish_Repeats(res) ==
    /\ initTask = "running"
    /\ Room
    /\ initTask' = "running"
    /\ cmdq' = IF ownerAlive
               THEN Enqueue(cmdq, Cmd("TransportInitFinished", NoMsg, res))
               ELSE cmdq
    /\ UNCHANGED <<loopVars, ownerAlive, outq, spawnVars, inflight, expired,
                   pingDue, checkDue, reads, wireVars, noteVars, nextId>>

\* run_init_task: the init work ends with Ok((transport, credentials)),
\* credentials with or without a token, or with one of the three errors,
\* and is reported if the handle still upgrades
InitTaskFinish(res) ==
    /\ initTask = "running"
    /\ Room
    /\ initTask' = "done"
    /\ cmdq' = IF ownerAlive
               THEN Enqueue(cmdq, Cmd("TransportInitFinished", NoMsg, res))
               ELSE cmdq
    /\ UNCHANGED <<loopVars, ownerAlive, outq, spawnVars, inflight, expired,
                   pingDue, checkDue, reads, wireVars, noteVars, nextId>>

\* ------------------------------------------------ incoming forward task
\* mutant: the task holds a strong handle, so it sends whatever happened to
\* the owner and goes on
IncomingForward_StrongHandle(ev) ==
    /\ inTask = "running"
    /\ Budget
    /\ Room
    /\ reads' = reads + 1
    /\ cmdq' = Enqueue(cmdq, Cmd("IncomingMessage", InMsg(reads + 1), ev))
    /\ inTask' = IF ev \in {"EOF", "ReadErr", "DecodeErr"}
                 THEN "ended" ELSE "running"
    /\ UNCHANGED <<loopVars, ownerAlive, initTask, outq, outTask, pingTask,
                   inflight, expired, pingDue, checkDue, wireVars, noteVars,
                   nextId>>

\* run_incoming_forward_task, the transport_incoming.next() branch
IncomingForward(ev) ==
    /\ inTask = "running"
    /\ Budget
    /\ Room
    /\ reads' = reads + 1
    /\ cmdq' = IF ownerAlive
               THEN Enqueue(cmdq, Cmd("IncomingMessage", InMsg(reads + 1), ev))
               ELSE cmdq
    /\ inTask' = IF ~ownerAlive \/ ev \in {"EOF", "ReadErr", "DecodeErr"}
                 THEN "ended" ELSE "running"
    /\ UNCHANGED <<loopVars, ownerAlive, initTask, outq, outTask, pingTask,
                   inflight, expired, pingDue, checkDue, wireVars, noteVars,
                   nextId>>

\* run_incoming_forward_task, the shutdown_notify branch
IncomingShutdown ==
    /\ inTask = "running"
    /\ killIn
    /\ inTask' = "ended"
    /\ UNCHANGED <<loopVars, cmdq, ownerAlive, initTask, outq, outTask,
                   pingTask, inflight, expired, pingDue, checkDue, reads,
                   wireVars, noteVars, nextId>>

\* ------------------------------------------------ outgoing forward task
\* run_outgoing_forward_task: messages_rx.recv() yields the next pair and
\* transport_outgoing.send(message) is started
OutgoingTake ==
    /\ outTask = "idle"
    /\ outq # <<>>
    /\ inflight' = Head(outq)
    /\ outq' = Tail(outq)
    /\ outTask' = "writing"
    /\ UNCHANGED <<loopVars, cmdq, ownerAlive, initTask, inTask, pingTask,
                   expired, pingDue, checkDue, reads, wireVars, noteVars, nextId>>

\* mutant: a failed write is told to the sender only, not to the event loop
OutgoingWritten_Unreported(ok) ==
    /\ outTask = "writing"
    /\ ok \/ (Budget /\ Room)
    /\ wire' = Append(wire, inflight)
    /\ writeErrors' = IF ok THEN writeErrors ELSE writeErrors + 1
    /\ outcome' = ResolveOne(outcome, inflight,
                             IF ok THEN "Ok" ELSE "OutgoingError")
    /\ resolveCount' = CountOne(resolveCount, inflight)
    /\ inflight' = NoMsg
    /\ outTask' = "idle"
    /\ UNCHANGED <<loopVars, cmdq, ownerAlive, initTask, outq, inTask,
                   pingTask, expired, pingDue, checkDue, reads, nextId>>

\* run_outgoing_forward_task: the write finishes with res; an error goes to
\* the event loop first (if the handle upgrades), then res goes to the
\* reply sender
OutgoingWritten(ok) ==
    /\ outTask = "writing"
    /\ ok \/ (Budget /\ Room)
    /\ wire' = Append(wire, inflight)
    /\ writeErrors' = IF ok THEN writeErrors ELSE writeErrors + 1
    /\ cmdq' = IF ~ok /\ ownerAlive
               THEN Enqueue(cmdq, Cmd("SendError", NoMsg, ""))
               ELSE cmdq
    /\ outcome' = ResolveOne(outcome, inflight,
                             IF ok THEN "Ok" ELSE "OutgoingError")
    /\ resolveCount' = CountOne(resolveCount, inflight)
    /\ inflight' = NoMsg
    /\ outTask' = "idle"
    /\ UNCHANGED <<loopVars, ownerAlive, initTask, outq, inTask, pingTask,
                   expired, pingDue, checkDue, reads, nextId>>

\* run_outgoing_forward_task: messages_rx.recv() yields None, the channel
\* is empty and its sender was dropped
OutgoingEnd ==
    /\ outTask = "idle"
    /\ outq = <<>>
    /\ ~outTxAlive
    /\ outTask' = "ended"
    /\ UNCHANGED <<loopVars, cmdq, ownerAlive, initTask, outq, inTask,
                   pingTask, inflight, expired, pingDue, checkDue, reads,
                   wireVars, noteVars, nextId>>

\* ------------------------------------------------------------ ping task
\* time passes: the timers of run_ping_task expire at 30, 35, 60, 65, ...
\* so the expirations alternate, send_ping_interval first
TimerExpires ==
    /\ pingTask = "running"
    /\ Budget
    /\ expired' = expired + 1
    /\ pingDue' = IF expired % 2 = 0 THEN pingDue + 1 ELSE pingDue
    /\ checkDue' = IF expired % 2 = 1 THEN checkDue + 1 ELSE checkDue
    /\ UNCHANGED <<loopVars, cmdq, ownerAlive, initTask, outq, spawnVars,
                   inflight, reads, wireVars, noteVars, nextId>>

\* run_ping_task, the send_ping_interval.tick() branch
PingTaskSendPing ==
    /\ pingTask = "running"
    /\ pingDue > 0
    /\ Room
    /\ pingDue' = pingDue - 1
    /\ cmdq' = IF ownerAlive
               THEN Enqueue(cmdq, Cmd("SendPing", NoMsg, ""))
               ELSE cmdq
    /\ pingTask' = IF ownerAlive THEN "running" ELSE "ended"
    /\ UNCHANGED <<loopVars, ownerAlive, initTask, outq, outTask, inTask,
                   inflight, expired, checkDue, reads, wireVars, noteVars, nextId>>

\* run_ping_task, the check_pong_interval.tick() branch
PingTaskCheckPong ==
    /\ pingTask = "running"
    /\ checkDue > 0
    /\ Room
    /\ checkDue' = checkDue - 1
    /\ cmdq' = IF ownerAlive
               THEN Enqueue(cmdq, Cmd("CheckPong", NoMsg, ""))
               ELSE cmdq
    /\ pingTask' = IF ownerAlive THEN "running" ELSE "ended"
    /\ UNCHANGED <<loopVars, ownerAlive, initTask, outq, outTask, inTask,
                   inflight, expired, pingDue, reads, wireVars, noteVars, nextId>>

\* run_ping_task, the shutdown_notify branch
PingTaskShutdown ==
    /\ pingTask = "running"
    /\ killPing
    /\ pingTask' = "ended"
    /\ UNCHANGED <<loopVars, cmdq, ownerAlive, initTask, outq, outTask,
                   inTask, inflight, expired, pingDue, checkDue, reads, wireVars,
                   noteVars, nextId>>

\* ------------------------------------------------------- the rate limiter
Conns == 1..NumConns

Min(a, b) == IF a < b THEN a ELSE b

\* every init task was just spawned, the semaphore is full
LimiterInit ==
    /\ connection_rate_limiter = Permits
    /\ initPos = [c \in Conns |-> "credentials"]
    /\ rate_limit_permit = [c \in Conns |-> "none"]
    /\ init_res = [c \in Conns |-> "none"]
    /\ connectTimer = [c \in Conns |-> 0]
    /\ heldFor = [c \in Conns |-> 0]
    /\ sinceConnected = [c \in Conns |-> 0]

\* run_init_task: get_credentials().await, `?` on its error
GetCredentials(c, ok) ==
    /\ initPos[c] = "credentials"
    /\ IF ok
       THEN /\ initPos' = [initPos EXCEPT ![c] = "acquire"]
            /\ init_res' = init_res
       ELSE /\ initPos' = [initPos EXCEPT ![c] = "end"]
            /\ init_res' = [init_res EXCEPT ![c] = "LoginError"]
    /\ UNCHANGED <<connection_rate_limiter, rate_limit_permit, connectTimer,
                   heldFor, sinceConnected, connVars, codecVars, buildVars>>

\* mutant: the connect attempt starts without waiting for a free permit
AcquirePermit_NoWait(c) ==
    /\ initPos[c] = "acquire"
    /\ connection_rate_limiter' =
            IF connection_rate_limiter > 0 THEN connection_rate_limiter - 1
            ELSE 0
    /\ rate_limit_permit' = [rate_limit_permit EXCEPT ![c] = "init"]
    /\ initPos' = [initPos EXCEPT ![c] = "connect"]
    /\ connectTimer' = [connectTimer EXCEPT ![c] = 0]
    /\ heldFor' = [heldFor EXCEPT ![c] = 0]
    /\ UNCHANGED <<init_res, sinceConnected, connVars, codecVars, buildVars>>

\* run_init_task: connection_rate_limiter.acquire_owned().await completes,
\* then T::new() and sleep(connect_timeout) are created
AcquirePermit(c) ==
    /\ initPos[c] = "acquire"
    /\ connection_rate_limiter > 0
    /\ connection_rate_limiter' = connection_rate_limiter - 1
    /\ rate_limit_permit' = [rate_limit_permit EXCEPT ![c] = "init"]
    /\ initPos' = [initPos EXCEPT ![c] = "connect"]
    /\ connectTimer' = [connectTimer EXCEPT ![c] = 0]
    /\ heldFor' = [heldFor EXCEPT ![c] = 0]
    /\ UNCHANGED <<init_res, sinceConnected, connVars, codecVars, buildVars>>

\* mutant: the permit is dropped as soon as the transport is connected
ConnectSucceeds_ReleasesAtOnce(c) ==
    /\ initPos[c] = "connect"
    /\ rate_limit_permit' = [rate_limit_permit EXCEPT ![c] = "returned"]
    /\ connection_rate_limiter' = connection_rate_limiter + 1
    /\ sinceConnected' = [sinceConnected EXCEPT ![c] = 0]
    /\ init_res' = [init_res EXCEPT ![c] = "Ok"]
    /\ initPos' = [initPos EXCEPT ![c] = "end"]
    /\ connectTimer' = [connectTimer EXCEPT ![c] = 0]
    /\ UNCHANGED <<heldFor, connVars, codecVars, buildVars>>

\* run_init_task: select! takes the connect_attempt branch with Ok: the
\* release task is spawned with the permit moved into it, and res is Ok
ConnectSucceeds(c) ==
    /\ initPos[c] = "connect"
    /\ rate_limit_permit' = [rate_limit_permit EXCEPT ![c] = "release_task"]
    /\ sinceConnected' = [sinceConnected EXCEPT ![c] = 0]
    /\ init_res' = [init_res EXCEPT ![c] = "Ok"]
    /\ initPos' = [initPos EXCEPT ![c] = "end"]
    /\ connectTimer' = [connectTimer EXCEPT ![c] = 0]
    /\ UNCHANGED <<connection_rate_limiter, heldFor, connVars, codecVars, buildVars>>

\* mutant: the permit of a failed attempt is forgotten, not dropped
ConnectFails_LeaksPermit(c, err) ==
    /\ initPos[c] = "connect"
    /\ err \in {"ConnectError", "ConnectTimeout"}
    /\ err = "ConnectTimeout" => connectTimer[c] >= ConnectTimeout
    /\ init_res' = [init_res EXCEPT ![c] = err]
    /\ rate_limit_permit' = [rate_limit_permit EXCEPT ![c] = "returned"]
    /\ initPos' = [initPos EXCEPT ![c] = "end"]
    /\ connectTimer' = [connectTimer EXCEPT ![c] = 0]
    /\ UNCHANGED <<connection_rate_limiter, heldFor, sinceConnected, connVars,
                   codecVars, buildVars>>

\* mutant: no timeout bounds the connect attempt
ConnectFails_NoTimeout(c, err) ==
    /\ initPos[c] = "connect"
    /\ err = "ConnectError"
    /\ init_res' = [init_res EXCEPT ![c] = err]
    /\ rate_limit_permit' = [rate_limit_permit EXCEPT ![c] = "returned"]
    /\ connection_rate_limiter' = connection_rate_limiter + 1
    /\ initPos' = [initPos EXCEPT ![c] = "end"]
    /\ connectTimer' = [connectTimer EXCEPT ![c] = 0]
    /\ UNCHANGED <<heldFor, sinceConnected, connVars, codecVars, buildVars>>

\* run_init_task: select! yields an Err (connect_attempt failed, or the
\* timeout branch once its sleep has ended); `?` leaves the block, which
\* drops rate_limit_permit
ConnectFails(c, err) ==
    /\ initPos[c] = "connect"
    /\ err \in {"ConnectError", "ConnectTimeout"}
    /\ err = "ConnectTimeout" => connectTimer[c] >= ConnectTimeout
    /\ init_res' = [init_res EXCEPT ![c] = err]
    /\ rate_limit_permit' = [rate_limit_permit EXCEPT ![c] = "returned"]
    /\ connection_rate_limiter' = connection_rate_limiter + 1
    /\ initPos' = [initPos EXCEPT ![c] = "end"]
    /\ connectTimer' = [connectTimer EXCEPT ![c] = 0]
    /\ UNCHANGED <<heldFor, sinceConnected, connVars, codecVars, buildVars>>

\* release_permit_task: sleep(new_connection_every) has ended,
\* drop(rate_limit_permit)
ReleasePermit(c) ==
    /\ rate_limit_permit[c] = "release_task"
    /\ sinceConnected[c] >= NewConnectionEvery
    /\ rate_limit_permit' = [rate_limit_permit EXCEPT ![c] = "returned"]
    /\ connection_rate_limiter' = connection_rate_limiter + 1
    /\ UNCHANGED <<initPos, init_res, connectTimer, heldFor, sinceConnected,
                   connVars, codecVars, buildVars>>

\* one second passes for every running timer
Tick ==
    /\ \E c \in Conns :
          \/ initPos[c] = "connect" /\ connectTimer[c] < ConnectTimeout
          \/ rate_limit_permit[c] = "release_task"
                /\ sinceConnected[c] < NewConnectionEvery
    /\ connectTimer' = [c \in Conns |->
            IF initPos[c] = "connect"
            THEN Min(connectTimer[c] + 1, ConnectTimeout) ELSE connectTimer[c]]
    /\ heldFor' = [c \in Conns |->
            IF rate_limit_permit[c] \in {"init", "release_task"}
            THEN Min(heldFor[c] + 1, NewConnectionEvery) ELSE heldFor[c]]
    /\ sinceConnected' = [c \in Conns |->
            IF rate_limit_permit[c] = "release_task"
            THEN Min(sinceConnected[c] + 1, NewConnectionEvery)
            ELSE sinceConnected[c]]
    /\ UNCHANGED <<connection_rate_limiter, initPos, rate_limit_permit, init_res,
                   connVars, codecVars, buildVars>>

\* ---------------------------------------------------------- the codec
\* a string is a sequence of characters; these are the characters a line
\* is drawn from: the ones parse and the tag escapes treat specially, a
\* letter, a digit, and the two line ends
CR == "\r"
LF == "\n"
Chars == {"@", ":", " ", ";", "=", "\\", "s", "1", CR, LF}
Letters == {"s", "S"}
Digits == {"1"}

\* every line of up to MaxLen characters
ShortInputs == UNION {[1..k -> Chars] : k \in 0..MaxLen}

\* tags segments with their '@' and space: none, a tag without value,
\* an empty value, an escape and a second tag, one key twice, empty keys
TagSegments ==
    {<<>>,
     <<"@", "s", " ">>,
     <<"@", "s", "=", " ">>,
     <<"@", "s", "=", "\\", "s", ";", "1", " ">>,
     <<"@", "s", ";", "s", "=", "1", " ">>,
     <<"@", ";", " ">>,
     <<"@", "=", "s", " ">>}

\* prefix segments with their ':' and space: none, host only, and
\* nick with user and host
PrefixSegments ==
    {<<>>,
     <<":", "s", " ">>,
     <<":", "s", "!", "s", "@", "s", " ">>,
     <<":", "s", "@", "s", " ">>,
     <<":", "s", "!", "s", " ">>}

\* command tokens: letters, digits, mixed
CommandTokens ==
    {<<"s">>,
     <<"1", "1">>,
     <<"s", "1">>}

\* what follows the command: nothing, middle and trailing parameters,
\* doubled and trailing spaces
ParamSegments ==
    {<<>>,
     <<" ">>,
     <<" ", "s">>,
     <<" ", ":">>,
     <<" ", "s", " ", "s">>,
     <<" ", "s", " ", ":", "s", " ", "s">>,
     <<" ", "s", " ", " ", "s">>,
     <<" ", "s", " ">>,
     <<" ", "s", " ", ":", " ", ":">>,
     <<" ", ":", ":", "s">>,
     <<" ", "s", " ", ":">>}

\* longer lines, put together from such segments
LongInputs ==
    {t \o p \o c \o q : t \in TagSegments, p \in PrefixSegments,
                         c \in CommandTokens, q \in ParamSegments}

\* the lines given to parse
Inputs == ShortInputs \cup LongInputs

\* str::find: the place of the first ch in s, 0 if there is none
IndexOf(s, ch) ==
    IF \E i \in DOMAIN s : s[i] = ch
    THEN CHOOSE i \in DOMAIN s : s[i] = ch /\ \A j \in 1..(i - 1) : s[j] # ch
    ELSE 0

\* s[i..]
From(s, i) == SubSeq(s, i, Len(s))

\* Option<T>: None is <<>>, Some(v) is <<v>>
None == <<>>
Some(v) == <<v>>

\* IRCTags::new(): the empty map
NoTags == <<>>

\* Result<IRCMessage, IRCParseError>: err is "Ok" for Ok(message)
Err(e) == [err |-> e, tags |-> NoTags, prefix |-> None, command |-> <<>>,
           params |-> <<>>]
Ok(t, p, c, ps) == [err |-> "Ok", tags |-> t, prefix |-> p, command |-> c,
                    params |-> ps]

\* the tag-value escape table, read from escaped text to literal; after a
\* backslash any other character stands for itself
Unescaped(ch) ==
    CASE ch = ":" -> ";"
      [] ch = "s" -> " "
      [] ch = "r" -> CR
      [] ch = "n" -> LF
      [] OTHER -> ch

\* unescaping of a tag value; a trailing lone backslash is dropped
RECURSIVE DecodeTagValue(_)
DecodeTagValue(v) ==
    IF v = <<>> THEN <<>>
    ELSE IF v[1] = "\\"
         THEN IF Len(v) = 1 THEN <<>>
              ELSE <<Unescaped(v[2])>> \o DecodeTagValue(From(v, 3))
         ELSE <<v[1]>> \o DecodeTagValue(Tail(v))

\* escaping of a tag value, the table read in reverse
RECURSIVE EncodeTagValue(_)
EncodeTagValue(v) ==
    IF v = <<>> THEN <<>>
    ELSE (CASE v[1] = ";" -> <<"\\", ":">>
            [] v[1] = " " -> <<"\\", "s">>
            [] v[1] = "\\" -> <<"\\", "\\">>
            [] v[1] = CR -> <<"\\", "r">>
            [] v[1] = LF -> <<"\\", "n">>
            [] OTHER -> <<v[1]>>) \o EncodeTagValue(Tail(v))

\* one key[=value] entry: the key, and Some(unescaped value) or None
TagKey(entry) ==
    IF IndexOf(entry, "=") = 0 THEN entry
    ELSE SubSeq(entry, 1, IndexOf(entry, "=") - 1)
TagValue(entry) ==
    IF IndexOf(entry, "=") = 0 THEN None
    ELSE Some(DecodeTagValue(From(entry, IndexOf(entry, "=") + 1)))

\* str::split(';')
RECURSIVE SplitEntries(_)
SplitEntries(t) ==
    IF IndexOf(t, ";") = 0 THEN <<t>>
    ELSE <<SubSeq(t, 1, IndexOf(t, ";") - 1)>>
         \o SplitEntries(From(t, IndexOf(t, ";") + 1))

\* IRCTags::parse: the map from key to optional value; of two entries with
\* one key the later one stays
IRCTagsParse(tags_part) ==
    LET entries == SplitEntries(tags_part)
        keys == {TagKey(entries[i]) : i \in DOMAIN entries}
        last(k) == CHOOSE i \in DOMAIN entries :
                      /\ TagKey(entries[i]) = k
                      /\ \A j \in DOMAIN entries :
                            TagKey(entries[j]) = k => j <= i
    IN  [k \in keys |-> TagValue(entries[last(k)])]

\* IRCPrefix::parse: HostOnly if the segment has no separator, else
\* nick[!user][@host]
IRCPrefixParse(prefix_part) ==
    LET at == IndexOf(prefix_part, "@")
        left == IF at = 0 THEN prefix_part ELSE SubSeq(prefix_part, 1, at - 1)
        ex == IndexOf(left, "!")
    IN  IF at = 0 /\ ex = 0
        THEN [kind |-> "HostOnly", nick |-> <<>>, user |-> None,
              host |-> Some(prefix_part)]
        ELSE [kind |-> "Full",
              nick |-> IF ex = 0 THEN left ELSE SubSeq(left, 1, ex - 1),
              user |-> IF ex = 0 THEN None ELSE Some(From(left, ex + 1)),
              host |-> IF at = 0 THEN None
                       ELSE Some(From(prefix_part, at + 1))]

\* IRCPrefix::format_as_raw_irc
PrefixFormat(p) ==
    IF p.kind = "HostOnly" THEN p.host[1]
    ELSE p.nick
         \o (IF p.user = None THEN <<>> ELSE <<"!">> \o p.user[1])
         \o (IF p.host = None THEN <<>> ELSE <<"@">> \o p.host[1])

\* IRCTags::format_as_raw_irc, the map iterated in the given order of keys
RECURSIVE TagsFormat(_, _)
TagsFormat(tags, order) ==
    IF order = <<>> THEN <<>>
    ELSE order[1]
         \o (IF tags[order[1]] = None THEN <<>>
             ELSE <<"=">> \o EncodeTagValue(tags[order[1]][1]))
         \o (IF Len(order) = 1 THEN <<>> ELSE <<";">>)
         \o TagsFormat(tags, Tail(order))

\* the orders a HashMap may be iterated in: every arrangement of its keys
RECURSIVE Orders(_)
Orders(S) ==
    IF S = {} THEN {<<>>}
    ELSE UNION {{<<k>> \o o : o \in Orders(S \ {k})} : k \in S}

\* String::make_ascii_uppercase
RECURSIVE Upper(_)
Upper(t) ==
    IF t = <<>> THEN <<>>
    ELSE <<IF t[1] = "s" THEN "S" ELSE t[1]>> \o Upper(Tail(t))

\* mutant: an empty middle token is skipped
RECURSIVE ParseParams_SkipsEmpty(_)
ParseParams_SkipsEmpty(rest_str) ==
    IF rest_str # <<>> /\ rest_str[1] = ":"
    THEN [err |-> FALSE, params |-> <<Tail(rest_str)>>]
    ELSE LET sp == IndexOf(rest_str, " ")
             param == IF sp = 0 THEN rest_str ELSE SubSeq(rest_str, 1, sp - 1)
         IN  IF sp = 0
             THEN [err |-> FALSE,
                   params |-> IF param = <<>> THEN <<>> ELSE <<param>>]
             ELSE LET more == ParseParams_SkipsEmpty(From(rest_str, sp + 1))
                  IN  [err |-> FALSE,
                       params |-> IF param = <<>> THEN more.params
                                  ELSE <<param>> \o more.params]

\* mutant: an empty middle token is a parameter
RECURSIVE ParseParams_KeepsEmpty(_)
ParseParams_KeepsEmpty(rest_str) ==
    IF rest_str # <<>> /\ rest_str[1] = ":"
    THEN [err |-> FALSE, params |-> <<Tail(rest_str)>>]
    ELSE LET sp == IndexOf(rest_str, " ")
             param == IF sp = 0 THEN rest_str ELSE SubSeq(rest_str, 1, sp - 1)
         IN  IF sp = 0 THEN [err |-> FALSE, params |-> <<param>>]
             ELSE LET more == ParseParams_KeepsEmpty(From(rest_str, sp + 1))
                  IN  [err |-> FALSE, params |-> <<param>> \o more.params]

\* mutant: the trailing parameter keeps its colon
RECURSIVE ParseParams_KeepsColon(_)
ParseParams_KeepsColon(rest_str) ==
    IF rest_str # <<>> /\ rest_str[1] = ":"
    THEN [err |-> FALSE, params |-> <<rest_str>>]
    ELSE LET sp == IndexOf(rest_str, " ")
             param == IF sp = 0 THEN rest_str ELSE SubSeq(rest_str, 1, sp - 1)
         IN  IF param = <<>> THEN [err |-> TRUE, params |-> <<>>]
             ELSE IF sp = 0 THEN [err |-> FALSE, params |-> <<param>>]
             ELSE LET more == ParseParams_KeepsColon(From(rest_str, sp + 1))
                  IN  [err |-> more.err,
                       params |-> IF more.err THEN <<>>
                                  ELSE <<param>> \o more.params]

\* parse, the `while let Some(rest_str) = rest` loop over the parameters;
\* err is TRUE for TooManySpacesInMiddleParams
RECURSIVE ParseParams(_)
ParseParams(rest_str) ==
    IF rest_str # <<>> /\ rest_str[1] = ":"
    THEN [err |-> FALSE, params |-> <<Tail(rest_str)>>]
    ELSE LET sp == IndexOf(rest_str, " ")
             param == IF sp = 0 THEN rest_str ELSE SubSeq(rest_str, 1, sp - 1)
         IN  IF param = <<>> THEN [err |-> TRUE, params |-> <<>>]
             ELSE IF sp = 0 THEN [err |-> FALSE, params |-> <<param>>]
             ELSE LET more == ParseParams(From(rest_str, sp + 1))
                  IN  [err |-> more.err,
                       params |-> IF more.err THEN <<>>
                                  ELSE <<param>> \o more.params]

\* mutant: a command may mix letters and digits
ParseCommand_AllowsMixed(tags, prefix, src) ==
    LET sp == IndexOf(src, " ")
        command == Upper(IF sp = 0 THEN src ELSE SubSeq(src, 1, sp - 1))
    IN  IF \/ command = <<>>
           \/ ~ \A i \in DOMAIN command : command[i] \in Letters \cup Digits
        THEN Err("MalformedCommand")
        ELSE IF sp = 0 THEN Ok(tags, prefix, command, <<>>)
        ELSE LET ps == ParseParams(From(src, sp + 1))
             IN  IF ps.err THEN Err("TooManySpacesInMiddleParams")
                 ELSE Ok(tags, prefix, command, ps.params)

\* parse, from command_split on: the command and the parameters
ParseCommand(tags, prefix, src) ==
    LET sp == IndexOf(src, " ")
        command == Upper(IF sp = 0 THEN src ELSE SubSeq(src, 1, sp - 1))
    IN  IF \/ command = <<>>
           \/ /\ ~ \A i \in DOMAIN command : command[i] \in Letters
              /\ ~ \A i \in DOMAIN command : command[i] \in Digits
        THEN Err("MalformedCommand")
        ELSE IF sp = 0 THEN Ok(tags, prefix, command, <<>>)
        ELSE LET ps == ParseParams(From(src, sp + 1))
             IN  IF ps.err THEN Err("TooManySpacesInMiddleParams")
                 ELSE Ok(tags, prefix, command, ps.params)

\* mutant: an empty prefix segment is taken as a host-only prefix
ParsePrefix_AllowsEmpty(tags, src) ==
    IF src # <<>> /\ src[1] = ":"
    THEN LET sp == IndexOf(Tail(src), " ")
         IN  IF sp = 0 THEN Err("NoSpaceAfterPrefix")
             ELSE ParseCommand(tags,
                               Some(IRCPrefixParse(SubSeq(Tail(src), 1, sp - 1))),
                               From(Tail(src), sp + 1))
    ELSE ParseCommand(tags, None, src)

\* parse, `let prefix = ...`
ParsePrefix(tags, src) ==
    IF src # <<>> /\ src[1] = ":"
    THEN LET sp == IndexOf(Tail(src), " ")
         IN  IF sp = 0 THEN Err("NoSpaceAfterPrefix")
             ELSE IF sp = 1 THEN Err("EmptyPrefixDeclaration")
             ELSE ParseCommand(tags,
                               Some(IRCPrefixParse(SubSeq(Tail(src), 1, sp - 1))),
                               From(Tail(src), sp + 1))
    ELSE ParseCommand(tags, None, src)

\* parse, `let tags = ...`
ParseTags(src) ==
    IF src # <<>> /\ src[1] = "@"
    THEN LET sp == IndexOf(Tail(src), " ")
         IN  IF sp = 0 THEN Err("NoSpaceAfterTags")
             ELSE IF sp = 1 THEN Err("EmptyTagsDeclaration")
             ELSE ParsePrefix(IRCTagsParse(SubSeq(Tail(src), 1, sp - 1)),
                              From(Tail(src), sp + 1))
    ELSE ParsePrefix(NoTags, src)

\* mutant: the line ends are looked for only once the tags were split off
Parse_NewlinesLate(src) ==
    IF src # <<>> /\ src[1] = "@" /\ IndexOf(src, " ") = 0
    THEN Err("NoSpaceAfterTags")
    ELSE IF \E i \in DOMAIN src : src[i] = CR \/ src[i] = LF
         THEN Err("NewlinesInMessage")
         ELSE ParseTags(src)

\* IRCMessage::parse
Parse(src) ==
    IF \E i \in DOMAIN src : src[i] = CR \/ src[i] = LF
    THEN Err("NewlinesInMessage")
    ELSE ParseTags(src)

\* mutant: the loop goes on after a parameter in trailing form
RECURSIVE FormatParams_GoesOn(_)
FormatParams_GoesOn(ps) ==
    IF ps = <<>> THEN <<>>
    ELSE IF IndexOf(ps[1], " ") = 0 /\ ps[1] # <<>> /\ ps[1][1] # ":"
         THEN <<" ">> \o ps[1] \o FormatParams_GoesOn(Tail(ps))
         ELSE <<" ", ":">> \o ps[1] \o FormatParams_GoesOn(Tail(ps))

\* format_as_raw_irc, the loop over params: middle form until the first
\* parameter that needs the trailing form, which ends the loop
RECURSIVE FormatParams(_)
FormatParams(ps) ==
    IF ps = <<>> THEN <<>>
    ELSE IF IndexOf(ps[1], " ") = 0 /\ ps[1] # <<>> /\ ps[1][1] # ":"
         THEN <<" ">> \o ps[1] \o FormatParams(Tail(ps))
         ELSE <<" ", ":">> \o ps[1]

\* mutant: the space that ends the tags is not written
FormatAsRawIrc_NoTagSpace(m, order) ==
    (IF DOMAIN m.tags # {}
     THEN <<"@">> \o TagsFormat(m.tags, order) ELSE <<>>)
    \o (IF m.prefix # None
        THEN <<":">> \o PrefixFormat(m.prefix[1]) \o <<" ">> ELSE <<>>)
    \o m.command
    \o FormatParams(m.params)

\* IRCMessage::format_as_raw_irc, the tags iterated in the given order
FormatAsRawIrc(m, order) ==
    (IF DOMAIN m.tags # {}
     THEN <<"@">> \o TagsFormat(m.tags, order) \o <<" ">> ELSE <<>>)
    \o (IF m.prefix # None
        THEN <<":">> \o PrefixFormat(m.prefix[1]) \o <<" ">> ELSE <<>>)
    \o m.command
    \o FormatParams(m.params)

\* the characters of a tag value: the five the escape table names, a
\* letter, and the ':' the escape of ';' is written with
ValueChars == {"\\", ";", " ", CR, LF, "s", ":"}

\* every tag value of up to MaxLen characters
TagValues == UNION {[1..k -> ValueChars] : k \in 0..MaxLen}

\* messages built by a caller, IRCMessage::new(tags, None, "S", vec![]):
\* a tag "s" without value or with any of the values, alone or next to a
\* second tag "1" without value
BuiltMessages ==
    {Ok([k \in keys |-> IF k = <<"s">> THEN o ELSE None], None, <<"S">>, <<>>) :
        keys \in {{<<"s">>}, {<<"s">>, <<"1">>}},
        o \in {None} \cup {Some(v) : v \in TagValues}}

\* parameters a caller can give: two that can be written in middle form,
\* and the empty one, ones with a space and ones starting with ':'
BuiltParams ==
    {<<"s">>, <<"s", ":">>,
     <<>>, <<" ">>, <<"s", " ">>, <<" ", "s">>, <<":">>, <<":", "s">>}

\* messages built by a caller, IRCMessage::new(IRCTags::new(), None, "S",
\* params) as irc!["S", ...] does, with up to MaxParams parameters
ParamMessages ==
    {Ok(NoTags, None, <<"S">>, ps) :
        ps \in UNION {[1..k -> BuiltParams] : k \in 0..MaxParams}}

\* a message built with parameters is about to be serialized
ParamsInit ==
    /\ source = <<>>
    /\ codecPos = "built"
    /\ message \in ParamMessages
    /\ raw = <<>>
    /\ reparsed = Err("none")

\* a built message is about to be serialized
BuiltInit ==
    /\ source = <<>>
    /\ codecPos = "built"
    /\ message \in BuiltMessages
    /\ raw = <<>>
    /\ reparsed = Err("none")

\* no line is in the codec
CodecIdle ==
    /\ source = <<>>
    /\ codecPos = "idle"
    /\ message = Err("none")
    /\ raw = <<>>
    /\ reparsed = Err("none")

\* a line is about to be parsed
CodecInit ==
    /\ source \in Inputs
    /\ codecPos = "start"
    /\ message = Err("none")
    /\ raw = <<>>
    /\ reparsed = Err("none")

\* IRCMessage::parse(source)
DoParse ==
    /\ codecPos = "start"
    /\ message' = Parse(source)
    /\ codecPos' = "parsed"
    /\ UNCHANGED <<source, raw, reparsed, connVars, limiterVars, buildVars>>

\* message.as_raw_irc()
DoFormat ==
    /\ codecPos \in {"parsed", "built"}
    /\ message.err = "Ok"
    /\ \E order \in Orders(DOMAIN message.tags) :
          raw' = FormatAsRawIrc(message, order)
    /\ codecPos' = "formatted"
    /\ UNCHANGED <<source, message, reparsed, connVars, limiterVars, buildVars>>

\* IRCMessage::parse(&message.as_raw_irc())
DoReparse ==
    /\ codecPos = "formatted"
    /\ reparsed' = Parse(raw)
    /\ codecPos' = "reparsed"
    /\ UNCHANGED <<source, message, raw, connVars, limiterVars, buildVars>>

\* --------------------------------------------------------- specification
\* the default features: transport-tcp and transport-tcp-native-tls
DefaultBuild == metrics_collection = FALSE

Init == ConnInit /\ LimiterInit /\ CodecIdle /\ DefaultBuild

\* the variables of the other parts, left alone by a step of the event loop
Aside == UNCHANGED <<limiterVars, codecVars, buildVars>>

Next ==
    \/ (\E n \in BOOLEAN : SubmitSend(n)) /\ Aside
    \/ TearDown /\ Aside
    \/ (\E res \in {"OkToken", "OkNoToken"} \cup InitErrors : InitTaskFinish(res)) /\ Aside
    \/ ProcessSendMessage /\ Aside
    \/ ProcessTransportInitFinished /\ Aside
    \/ ProcessSendError /\ Aside
    \/ ProcessIncomingMessage /\ Aside
    \/ ProcessSendPing /\ Aside
    \/ ProcessCheckPong /\ Aside
    \/ WorkerEnd /\ Aside
    \/ (\E ev \in InEvents : IncomingForward(ev)) /\ Aside
    \/ IncomingShutdown /\ Aside
    \/ OutgoingTake /\ Aside
    \/ (\E ok \in BOOLEAN : OutgoingWritten(ok)) /\ Aside
    \/ OutgoingEnd /\ Aside
    \/ TimerExpires /\ Aside
    \/ PingTaskSendPing /\ Aside
    \/ PingTaskCheckPong /\ Aside
    \/ PingTaskShutdown /\ Aside

Spec == Init /\ [][Next]_vars

\* the init tasks of NumConns connections around their shared rate limiter
NextLimiter ==
    \/ \E c \in Conns, ok \in BOOLEAN : GetCredentials(c, ok)
    \/ \E c \in Conns : AcquirePermit(c)
    \/ \E c \in Conns : ConnectSucceeds(c)
    \/ \E c \in Conns, err \in {"ConnectError", "ConnectTimeout"} :
            ConnectFails(c, err)
    \/ \E c \in Conns : ReleasePermit(c)
    \/ Tick

SpecLimiter == Init /\ [][NextLimiter]_vars

\* ConnectionLoopWorker::run, one turn of its while-let on a command
ProcessCommand ==
    \/ ProcessSendMessage
    \/ ProcessTransportInitFinished
    \/ ProcessSendError
    \/ ProcessIncomingMessage
    \/ ProcessSendPing
    \/ ProcessCheckPong

\* the event loop of one connection on a runtime that keeps polling its
\* tasks: connection_loop_rx.recv() returns when the channel has a command
\* or is closed and empty, a task whose select! has a ready shutdown_notify
\* takes a branch, messages_rx.recv() returns when the channel has a
\* message or is closed and empty, and a write to the transport ends, with
\* Ok or with Err
Fairness ==
    /\ WF_vars(ProcessCommand /\ Aside)
    /\ WF_vars(WorkerEnd /\ Aside)
    /\ WF_vars(IncomingShutdown /\ Aside)
    /\ WF_vars(PingTaskShutdown /\ Aside)
    /\ WF_vars(OutgoingTake /\ Aside)
    /\ WF_vars((\E ok \in BOOLEAN : OutgoingWritten(ok)) /\ Aside)
    /\ WF_vars(OutgoingEnd /\ Aside)

SpecFair == Init /\ [][Next]_vars /\ Fairness

\* run_init_task of connection 1 reaches its last statement with the res
\* its async block produced and sends TransportInitFinished(res)
InitTaskEnds ==
    /\ initPos[1] = "end"
    /\ \E res \in {"OkToken", "OkNoToken"} \cup InitErrors :
        /\ (res \in InitErrors) => res = init_res[1]
        /\ (res \notin InitErrors) => init_res[1] = "Ok"
        /\ InitTaskFinish(res)
    /\ Aside

\* the initialization of connection 1 next to the init tasks of the other
\* connections: its init task, the owner dropping the connection, and the
\* worker handling the init result
NextInit ==
    \/ NextLimiter
    \/ InitTaskEnds
    \/ TearDown /\ Aside
    \/ ProcessTransportInitFinished /\ Aside
    \/ WorkerEnd /\ Aside

\* get_credentials() returns; the semaphore hands a free permit to a
\* waiting acquire_owned(); time passes, so sleep(connect_timeout) and
\* sleep(new_connection_every) end; the runtime keeps polling the init task
\* and the worker. Nothing makes a connect attempt complete.
InitFairness ==
    /\ \A c \in Conns : WF_vars(\E ok \in BOOLEAN : GetCredentials(c, ok))
    /\ \A c \in Conns : WF_vars(AcquirePermit(c))
    /\ \A c \in Conns : WF_vars(ConnectFails(c, "ConnectTimeout"))
    /\ \A c \in Conns : WF_vars(ReleasePermit(c))
    /\ WF_vars(Tick)
    /\ WF_vars(InitTaskEnds)
    /\ WF_vars(ProcessTransportInitFinished /\ Aside)
    /\ WF_vars(WorkerEnd /\ Aside)

SpecInit == Init /\ [][NextInit]_vars /\ InitFairness

\* the event loop of one connection under either build of the crate
InitBuilds ==
    /\ ConnInit /\ LimiterInit /\ CodecIdle
    /\ metrics_collection \in BOOLEAN

SpecBuilds == InitBuilds /\ [][Next]_vars

\* one line through the codec
InitCodec == ConnInit /\ LimiterInit /\ CodecInit /\ DefaultBuild

NextCodec ==
    \/ DoParse
    \/ DoFormat
    \/ DoReparse

SpecCodec == InitCodec /\ [][NextCodec]_vars

\* one built message through as_raw_irc and parse
InitBuilt == ConnInit /\ LimiterInit /\ BuiltInit /\ DefaultBuild

NextBuilt ==
    \/ DoFormat
    \/ DoReparse

SpecBuilt == InitBuilt /\ [][NextBuilt]_vars

\* one message built with parameters through as_raw_irc and parse
InitParams == ConnInit /\ LimiterInit /\ ParamsInit /\ DefaultBuild

SpecParams == InitParams /\ [][NextBuilt]_vars

TypeOK ==
    /\ state \in {"Initializing", "Open", "Closed"}
    /\ reason_for_closure \in Reasons \cup {"none"}
    /\ \A i \in Ids : outcome[i] \in Reasons \cup {"unborn", "pending", "Ok", "dropped"}

\* ----------------------------------------------------- claim vocabulary
\* what a reply sender can deliver: Ok(()) or Err(an Error variant)
Delivered == {"Ok"} \cup Reasons

\* a step of process_command on a command of type t
Handles(t) ==
    /\ workerAlive
    /\ cmdq # <<>>
    /\ Head(cmdq).type = t
    /\ Len(cmdq') < Len(cmdq)

\* how many entries of a queue hold the reply sender of Send i
InQueue(q, i) == Cardinality({k \in DOMAIN q : q[k].id = i /\ q[k].notify})
InFlight(i) == IF inflight.id = i /\ inflight.notify THEN 1 ELSE 0
QueuedPlaces(i) ==
    InQueue(SendMsgs(cmdq), i) + InQueue(commands_queue, i) + InQueue(outq, i)

StateClosedCount(p) == Cardinality({k \in DOMAIN p : p[k].type = "StateClosed"})

\* ---------------------------------------------------------------- C1
\* C1: Closed is terminal. Once the state is Closed, no step (no command
\* of any kind, in any order) takes it back to Initializing or Open.
C1_ClosedIsTerminal == [][state = "Closed" => state' = "Closed"]_vars

\* a command from the incoming forward task was handled after the closure
C1_Witness ==
    /\ state = "Closed"
    /\ lastProc.st = "Closed"
    /\ lastProc.type = "IncomingMessage"

\* ---------------------------------------------------------------- C2
\* C2: every Send that carries a reply sender gets a result (success, a
\* write error or the closure reason), whatever happens afterwards. As a
\* final result: once the worker loop and the outgoing forward task have
\* ended, every reply sender that was created has delivered a result.
C2_EverySendResolved ==
    (~workerAlive /\ outTask \in {"none", "ended"})
        => \A i \in Ids : outcome[i] \in Delivered \cup {"unborn"}

\* ---------------------------------------------------------------- C3
\* C3 as stated: no reply sender is used more than once, and each unused
\* one is held in exactly one of the command queue, the Initializing queue
\* and the outgoing forward queue.
C3_Original ==
    \A i \in Ids :
        /\ resolveCount[i] <= 1
        /\ outcome[i] = "pending" => QueuedPlaces(i) = 1

\* C3 as amended: no reply sender is used more than once; a reply sender
\* that is neither used nor dropped is held in exactly one of the command
\* queue, the Initializing queue, the outgoing forward queue and the write
\* the outgoing forward task has in progress; a used or dropped one is
\* held nowhere, so a write error reported to the sender and to the loop
\* is not reported again when the connection closes.
C3_AtMostOnce ==
    \A i \in Ids :
        /\ resolveCount[i] <= 1
        /\ (resolveCount[i] = 1) <=> (outcome[i] \in Delivered)
        /\ QueuedPlaces(i) + InFlight(i) =
               (IF outcome[i] = "pending" THEN 1 ELSE 0)

\* a failed write was reported to its sender, then closed the connection
C3_Witness ==
    /\ state = "Closed"
    /\ reason_for_closure = "OutgoingError"
    /\ lastProc.type = "SendError"
    /\ \E i \in Ids : outcome[i] = "OutgoingError" /\ resolveCount[i] = 1
                      /\ handledIn[i] = "Open"

\* ---------------------------------------------------------------- C4
\* C4: FIFO across Initializing -> Open. Whenever a Send reaches the
\* transport, every Send submitted before it has reached the transport
\* earlier: Sends queued while Initializing come before the Sends handled
\* in Open, and each group keeps its submission order.
C4_FifoAcrossOpen ==
    \A k \in DOMAIN wire :
        wire[k].kind = "APP" =>
            \A i \in 1..(wire[k].id - 1) :
                \E j \in 1..(k - 1) : wire[j].kind = "APP" /\ wire[j].id = i

\* a Send queued while Initializing and a later one handled in Open were
\* both written
C4_Witness ==
    /\ handledIn[1] = "Initializing"
    /\ handledIn[2] = "Open"
    /\ \E j, k \in DOMAIN wire : wire[j].id = 1 /\ wire[k].id = 2

\* ---------------------------------------------------------------- C5
\* C5: a Send handled while Closed is answered within that step with the
\* stored closure reason, is not forwarded to the outgoing forward task,
\* writes nothing, and leaves the state Closed with the same reason.
C5_ClosedSendReplies ==
    [][(Handles("SendMessage") /\ state = "Closed")
        => /\ state' = "Closed"
           /\ reason_for_closure' = reason_for_closure
           /\ outq' = outq
           /\ commands_queue' = commands_queue
           /\ inflight' = inflight
           /\ wire' = wire
           /\ pool' = pool
           /\ Head(cmdq).msg.notify =>
                /\ outcome'[Head(cmdq).msg.id] = reason_for_closure
                /\ resolveCount'[Head(cmdq).msg.id] = 1]_vars

C5_Witness ==
    /\ state = "Closed"
    /\ lastProc.st = "Closed"
    /\ lastProc.type = "SendMessage"
    /\ \E i \in Ids : handledIn[i] = "Closed"
                      /\ outcome[i] = reason_for_closure

\* ---------------------------------------------------------------- C6
\* C6: a CheckPong handled in Open closes the connection with PingTimeout
\* exactly if no PONG was handled since the latest SendPing, and leaves it
\* Open otherwise; a SendPing handled in Open clears pong_received and
\* hands exactly one PING to the outgoing forward task.
C6_Keepalive ==
    [][/\ (Handles("CheckPong") /\ state = "Open") =>
            IF pongSincePing
            THEN state' = "Open"
            ELSE state' = "Closed" /\ reason_for_closure' = "PingTimeout"
       /\ (Handles("SendPing") /\ state = "Open") =>
            /\ pong_received' = FALSE
            /\ outq' = Append(outq, OwnMsg("PING"))
            /\ state' = "Open"]_vars

\* a PONG answered the PING, and the check left the connection open
C6_Witness ==
    /\ state = "Open"
    /\ lastProc.st = "Open"
    /\ lastProc.type = "CheckPong"
    /\ pingProcessed
    /\ pongSincePing

\* ---------------------------------------------------------------- C7
\* C7: a malformed inbound line is never fatal, whether the transport
\* fails to decode it or ServerMessage::try_from rejects it: the incoming
\* forward task keeps reading, and handling it in Open leaves the state
\* Open and sends the pool one generic IncomingMessage and no StateClosed.
C7_MalformedNotFatal ==
    [][/\ (inTask = "running" /\ ownerAlive /\ reads' = reads + 1
           /\ cmdq' # cmdq /\ cmdq'[Len(cmdq')].arg \in {"BADSEM", "DecodeErr"})
            => inTask' = "running"
       /\ (Handles("IncomingMessage") /\ state = "Open"
           /\ Head(cmdq).arg \in {"BADSEM", "DecodeErr"})
            => /\ state' = "Open"
               /\ pool' = Append(pool, Cmd("IncomingMessage", Head(cmdq).msg,
                                            "GENERIC"))
      ]_vars

\* ---------------------------------------------------------------- C8
\* C8: in Open, end of stream closes with
\* RemoteUnexpectedlyClosedConnection, a read error with that incoming
\* error, and a SendError command with OutgoingError; the state after the
\* step is Closed and no task is started again.
C8_FatalInOpen ==
    [][/\ (Handles("IncomingMessage") /\ state = "Open"
           /\ Head(cmdq).arg = "EOF")
            => /\ state' = "Closed"
               /\ reason_for_closure' = "RemoteUnexpectedlyClosedConnection"
       /\ (Handles("IncomingMessage") /\ state = "Open"
           /\ Head(cmdq).arg = "ReadErr")
            => /\ state' = "Closed"
               /\ reason_for_closure' = "IncomingError"
       /\ (Handles("SendError") /\ state = "Open")
            => /\ state' = "Closed"
               /\ reason_for_closure' = "OutgoingError"
       /\ (state = "Open" /\ state' = "Closed")
            => /\ initTask' = initTask
               /\ <<outTask, inTask, pingTask>>' = <<outTask, inTask, pingTask>>
      ]_vars

C8_Witness ==
    /\ state = "Closed"
    /\ reason_for_closure = "RemoteUnexpectedlyClosedConnection"
    /\ lastProc = [st |-> "Open", type |-> "IncomingMessage", arg |-> "EOF"]

\* ---------------------------------------------------------------- C9
\* C9: StateClosed goes to the pool exactly once per connection that
\* reaches Closed: in the step that enters Closed, carrying the stored
\* reason, and never again, whatever fatal events are handled afterwards.
C9_ClosedReportedOnce ==
    [][/\ StateClosedCount(pool') = (IF state' = "Closed" THEN 1 ELSE 0)
       /\ (state # "Closed" /\ state' = "Closed")
            => pool'[Len(pool')] = Cmd("StateClosed", NoMsg, reason_for_closure')
       /\ state = "Closed"
            => /\ StateClosedCount(pool') = StateClosedCount(pool)
               /\ reason_for_closure' = reason_for_closure]_vars

\* a second fatal event, a failed write, was handled after the closure
C9_Witness ==
    /\ state = "Closed"
    /\ reason_for_closure # "OutgoingError"
    /\ lastProc.st = "Closed"
    /\ lastProc.type = "SendError"
    /\ StateClosedCount(pool) = 1

\* --------------------------------------------------------------- C10
\* C10 as stated: every Send whose reply sender is unused when the state
\* becomes Closed, whether queued in Initializing or waiting in the
\* outgoing forward queue, gets the closure reason.
C10_Original ==
    \A i \in atClose : outcome[i] \in {"pending", reason_for_closure}

\* C10 as amended: on the way from Initializing to Closed every queued
\* Send gets the closure reason in that step. On the way from Open to
\* Closed no reply sender is used: a Send already handed to the outgoing
\* forward task is still written, and gets the result of its own write.
C10_ClosureReachesQueued ==
    [][/\ (state = "Initializing" /\ state' = "Closed")
            => \A i \in Ids :
                 InQueue(commands_queue, i) = 1
                    => outcome'[i] = reason_for_closure'
       /\ (state = "Open" /\ state' = "Closed")
            => outcome' = outcome /\ outq' = outq /\ inflight' = inflight
       /\ (outTask = "writing" /\ outTask' = "idle" /\ inflight.notify)
            => outcome'[inflight.id] \in {"Ok", "OutgoingError"}]_vars

\* the init failed with a Send queued, and the Send got the init error
C10_Witness ==
    /\ state = "Closed"
    /\ reason_for_closure \in InitErrors
    /\ \E i \in Ids : handledIn[i] = "Initializing"
                      /\ outcome[i] = reason_for_closure

\* --------------------------------------------------------------- C11
\* C11: when TransportInitFinished carries an error while Initializing,
\* every queued Send with a reply sender gets exactly that error, the pool
\* gets StateClosed with it, the state becomes Closed with it, no forwarder
\* and no pinger is spawned, and nothing is ever written to a transport.
C11_InitFailure ==
    [][/\ (Handles("TransportInitFinished") /\ state = "Initializing"
           /\ Head(cmdq).arg \in InitErrors)
            => /\ \A i \in Ids :
                    InQueue(commands_queue, i) = 1
                        => outcome'[i] = Head(cmdq).arg /\ resolveCount'[i] = 1
               /\ pool' = Append(pool, Cmd("StateClosed", NoMsg, Head(cmdq).arg))
               /\ state' = "Closed"
               /\ reason_for_closure' = Head(cmdq).arg
       /\ (state' = "Closed" /\ reason_for_closure' \in InitErrors)
            => /\ outTask' = "none" /\ inTask' = "none" /\ pingTask' = "none"
               /\ outq' = <<>>
               /\ inflight' = NoMsg
               /\ wire' = <<>>]_vars

\* a connect timeout closed the connection with a Send queued; a later
\* Send was handled too, and nothing reached a transport
C11_Witness ==
    /\ state = "Closed"
    /\ reason_for_closure = "ConnectTimeout"
    /\ wire = <<>>
    /\ \E i, j \in Ids : /\ handledIn[i] = "Initializing"
                         /\ outcome[i] = "ConnectTimeout"
                         /\ handledIn[j] = "Closed"

\* --------------------------------------------------------------- C12
\* C12: on a successful init the outgoing forward task is handed CAP REQ
\* (tags/commands), PASS exactly if the credentials hold a token, NICK, CAP
\* REQ (membership) and then the Sends queued while Initializing, in this
\* order; no application Send is written before NICK and both CAP REQs.
C12_HandshakeFirst ==
    [][/\ (Handles("TransportInitFinished") /\ state = "Initializing"
           /\ Head(cmdq).arg \notin InitErrors)
            => outq' = IF Head(cmdq).arg = "OkToken"
                       THEN <<OwnMsg("CAP_TAGS"), OwnMsg("PASS"), OwnMsg("NICK"),
                              OwnMsg("CAP_MEMBERSHIP")>> \o commands_queue
                       ELSE <<OwnMsg("CAP_TAGS"), OwnMsg("NICK"),
                              OwnMsg("CAP_MEMBERSHIP")>> \o commands_queue
       /\ \A k \in DOMAIN wire' :
            wire'[k].kind = "APP" =>
                \E a, b, c \in 1..(k - 1) :
                    /\ a < b /\ b < c
                    /\ wire'[a].kind = "CAP_TAGS"
                    /\ wire'[b].kind = "NICK"
                    /\ wire'[c].kind = "CAP_MEMBERSHIP"]_vars

\* with a token: the four handshake messages, then the queued Send
C12_Witness ==
    /\ Len(wire) >= 5
    /\ wire[2].kind = "PASS"
    /\ wire[5].kind = "APP"
    /\ handledIn[wire[5].id] = "Initializing"

\* --------------------------------------------------------------- C13
\* the closure reason the handling of a command gives, if it closes
FatalReason(c) ==
    CASE c.type = "TransportInitFinished" -> c.arg
      [] c.type = "SendError" -> "OutgoingError"
      [] c.type = "CheckPong" -> "PingTimeout"
      [] c.type = "IncomingMessage" /\ c.arg = "EOF" ->
            "RemoteUnexpectedlyClosedConnection"
      [] c.type = "IncomingMessage" /\ c.arg = "ReadErr" -> "IncomingError"
      [] c.type = "IncomingMessage" /\ c.arg = "DecodeErr" -> "IRCParseError"
      [] c.type = "IncomingMessage" /\ c.arg = "RECONNECT" -> "ReconnectCmd"
      [] OTHER -> "none"

\* C13: the closure reason is the reason of the first fatal event handled;
\* no later command (SendError, inbound error or EOF, CheckPong,
\* TransportInitFinished) changes it, and every later Send is answered
\* with it.
C13_ReasonImmutable ==
    [][/\ (state # "Closed" /\ state' = "Closed")
            => reason_for_closure' = FatalReason(Head(cmdq))
       /\ state # "Closed" => reason_for_closure = "none"
       /\ state = "Closed"
            => /\ reason_for_closure' = reason_for_closure
               /\ \A i \in Ids :
                    (handledIn[i] = "none" /\ handledIn'[i] = "Closed"
                     /\ outcome[i] = "pending")
                        => outcome'[i] = reason_for_closure]_vars

\* a PingTimeout closure, then an end of stream handled while Closed
C13_Witness ==
    /\ state = "Closed"
    /\ reason_for_closure = "PingTimeout"
    /\ lastProc = [st |-> "Closed", type |-> "IncomingMessage", arg |-> "EOF"]

\* --------------------------------------------------------------- C14
\* C14: commands leave the command channel in the order they entered it,
\* each once, one per step of the loop: a step either appends one command
\* at the back, or the loop takes the command at the front and handles
\* just that one, or the channel is untouched.
C14_CommandsInOrder ==
    [][\/ cmdq' = cmdq
       \/ /\ Len(cmdq') = Len(cmdq) + 1
          /\ SubSeq(cmdq', 1, Len(cmdq)) = cmdq
       \/ /\ cmdq # <<>>
          /\ workerAlive
          /\ cmdq' = Tail(cmdq)
          /\ lastProc' = [st |-> state, type |-> Head(cmdq).type,
                          arg |-> Head(cmdq).arg]]_vars

\* a command was handled while commands of two other producers waited
C14_Witness ==
    /\ lastProc.type = "SendMessage"
    /\ Len(cmdq) = 2
    /\ cmdq[1].type = "IncomingMessage"
    /\ cmdq[2].type = "SendError"

\* --------------------------------------------------------------- C15
\* C15: with N permits in the limiter at most N init tasks are in their
\* connect phase at once, and a task is in its connect phase only while it
\* holds a permit it acquired.
C15_BoundedConnecting ==
    /\ Cardinality({c \in Conns : initPos[c] = "connect"}) <= Permits
    /\ \A c \in Conns : initPos[c] = "connect" => rate_limit_permit[c] = "init"
    /\ connection_rate_limiter
         + Cardinality({c \in Conns :
                          rate_limit_permit[c] \in {"init", "release_task"}})
         = Permits

\* every permit is out: as many tasks connect as there are permits while
\* another one waits for a permit
C15_Witness ==
    /\ connection_rate_limiter = 0
    /\ Cardinality({c \in Conns : initPos[c] = "connect"}) = Permits
    /\ \E d \in Conns : initPos[d] = "acquire"

\* --------------------------------------------------------------- C16
\* C16: after a successful connect the permit goes back to the limiter only
\* when the spacing interval has passed since the connect completed, while
\* the Ok result is reported at the completion of the connect, with the
\* permit still out.
C16_SpacingAfterSuccess ==
    [][\A c \in Conns :
        /\ (initPos[c] = "connect" /\ init_res'[c] = "Ok")
             => /\ rate_limit_permit'[c] = "release_task"
                /\ sinceConnected'[c] = 0
                /\ connection_rate_limiter' = connection_rate_limiter
        /\ (init_res[c] = "Ok" /\ rate_limit_permit[c] # "returned"
            /\ rate_limit_permit'[c] = "returned")
             => sinceConnected[c] >= NewConnectionEvery
        /\ (init_res'[c] = "Ok" /\ rate_limit_permit'[c] = "returned")
             => sinceConnected'[c] >= NewConnectionEvery]_vars

\* one connection reported Ok and its permit came back after the interval;
\* with it another connection is now in its connect phase
C16_Witness ==
    \E c, d \in Conns :
        /\ init_res[c] = "Ok"
        /\ rate_limit_permit[c] = "returned"
        /\ sinceConnected[c] = NewConnectionEvery
        /\ initPos[d] = "connect"

\* --------------------------------------------------------------- C17
\* C17: a permit taken by an init task is put back only when
\* new_connection_every has passed since it was taken; none is returned
\* earlier.
C17_PermitHeldForInterval ==
    \A c \in Conns :
        rate_limit_permit[c] = "returned" => heldFor[c] >= NewConnectionEvery

\* --------------------------------------------------------------- C18
\* C18: whenever parse succeeds on a line with message m, parsing
\* m.as_raw_irc() succeeds and gives a message equal to m: same tag map,
\* same prefix, same command, same parameters.
C18_RoundTrip ==
    codecPos = "reparsed" => reparsed = message

\* --------------------------------------------------------------- C19
\* C19: parse returns NewlinesInMessage for every line that holds a CR or
\* an LF anywhere, whatever else is wrong with the line, and for no line
\* without CR and LF.
C19_NewlinesFirst ==
    codecPos # "start" =>
        (message.err = "NewlinesInMessage"
            <=> \E i \in 1..Len(source) : source[i] \in {"\r", "\n"})

\* a line with tags that lack their space, and a line end in it
C19_Witness ==
    /\ codecPos = "parsed"
    /\ Len(source) = 3
    /\ source[1] = "@"
    /\ source[3] = "\n"
    /\ \A i \in 1..3 : source[i] # " "
    /\ message.err = "NewlinesInMessage"

\* --------------------------------------------------------------- C20
\* the text left once the tags segment and its space are taken off a line
\* that starts with '@' and has a non-empty tags segment; else the line
C20_Remainder ==
    IF source # <<>> /\ source[1] = "@"
    THEN SubSeq(source,
                1 + (CHOOSE i \in 2..Len(source) :
                        source[i] = " " /\ \A j \in 2..(i - 1) : source[j] # " "),
                Len(source))
    ELSE source

\* C20: for a line without CR and LF: '@' first and no space in the line
\* gives NoSpaceAfterTags; nothing between '@' and the first space gives
\* EmptyTagsDeclaration; with tags absent or well framed, ':' at the start
\* of the remainder and no space in it gives NoSpaceAfterPrefix, nothing
\* between ':' and the next space gives EmptyPrefixDeclaration; the tags
\* errors come whatever the prefix and the command look like.
C20_FramingErrors ==
    (codecPos # "start" /\ \A i \in 1..Len(source) : source[i] \notin {"\r", "\n"})
    => LET tagged == source # <<>> /\ source[1] = "@"
           spaced == \E i \in 1..Len(source) : source[i] = " "
       IN  /\ (tagged /\ ~spaced) => message.err = "NoSpaceAfterTags"
           /\ (tagged /\ spaced /\ source[2] = " ")
                => message.err = "EmptyTagsDeclaration"
           /\ (~tagged \/ (spaced /\ source[2] # " "))
                => LET r == C20_Remainder
                       colon == r # <<>> /\ r[1] = ":"
                       rspaced == \E i \in 1..Len(r) : r[i] = " "
                   IN  /\ (colon /\ ~rspaced)
                            => message.err = "NoSpaceAfterPrefix"
                       /\ (colon /\ rspaced /\ r[2] = " ")
                            => message.err = "EmptyPrefixDeclaration"

\* a well-framed tags segment followed by an empty prefix segment
C20_Witness ==
    /\ codecPos = "parsed"
    /\ source = <<"@", "s", " ", ":", " ">>
    /\ message.err = "EmptyPrefixDeclaration"

\* --------------------------------------------------------------- C21
\* s from its first to its last character, without what comes up to and
\* with the first space
AfterSpace(s) ==
    SubSeq(s, 1 + (CHOOSE i \in 1..Len(s) :
                      s[i] = " " /\ \A j \in 1..(i - 1) : s[j] # " "), Len(s))

\* the text of the line behind the optional tags and the optional prefix,
\* for a line that parse does not reject for its line ends or its framing
C21_Rest ==
    LET r == IF source # <<>> /\ source[1] = "@" THEN AfterSpace(source)
             ELSE source
    IN  IF r # <<>> /\ r[1] = ":" THEN AfterSpace(r) ELSE r

\* the first space-delimited token of that text
C21_Token ==
    LET r == C21_Rest
    IN  IF \E i \in 1..Len(r) : r[i] = " "
        THEN SubSeq(r, 1, Len(r) - Len(AfterSpace(r)) - 1)
        ELSE r

\* C21: the command of a parsed message is non-empty, has no lower-case
\* letter and is all ASCII letters or all ASCII digits; parse answers
\* MalformedCommand exactly when the first token behind the optional tags
\* and prefix is empty, mixes letters and digits or holds another
\* character; a lower-case token parses to its upper-case form.
C21_CommandValid ==
    (codecPos # "start"
     /\ message.err \notin {"NewlinesInMessage", "NoSpaceAfterTags",
                            "EmptyTagsDeclaration", "NoSpaceAfterPrefix",
                            "EmptyPrefixDeclaration"})
    => LET t == C21_Token
           bad == \/ t = <<>>
                  \/ \E i \in 1..Len(t) : t[i] \notin {"s", "S", "1"}
                  \/ \E i, j \in 1..Len(t) : t[i] \in {"s", "S"} /\ t[j] = "1"
       IN  /\ bad <=> message.err = "MalformedCommand"
           /\ message.err = "Ok"
                => /\ message.command # <<>>
                   /\ Len(message.command) = Len(t)
                   /\ \A i \in 1..Len(t) :
                        message.command[i] = IF t[i] = "s" THEN "S" ELSE t[i]

\* a lower-case command behind a prefix, parsed to upper case
C21_Witness ==
    /\ codecPos = "parsed"
    /\ source = <<":", "s", " ", "s", "s">>
    /\ message.err = "Ok"
    /\ message.command = <<"S", "S">>

\* --------------------------------------------------------------- C22
\* the text behind the command token and its space
C22_ParamsPart == AfterSpace(C21_Rest)

\* where the trailing parameter starts: the first ':' that opens a token
C22_Colon ==
    LET P == C22_ParamsPart
        opens(i) == P[i] = ":" /\ (i = 1 \/ P[i - 1] = " ")
    IN  IF \E i \in 1..Len(P) : opens(i)
        THEN CHOOSE i \in 1..Len(P) : opens(i) /\ \A j \in 1..(i - 1) : ~opens(j)
        ELSE 0

\* the middle parameters and the single spaces between them, as one text:
\* what stands before the space in front of the trailing parameter
C22_Middle ==
    IF C22_Colon = 0 THEN C22_ParamsPart
    ELSE SubSeq(C22_ParamsPart, 1, C22_Colon - 2)

\* parameters joined by single spaces
RECURSIVE C22_Join(_)
C22_Join(ps) ==
    IF ps = <<>> THEN <<>>
    ELSE IF Len(ps) = 1 THEN ps[1]
    ELSE ps[1] \o <<" ">> \o C22_Join(Tail(ps))

\* C22: behind the command, tokens separated by single spaces are the
\* middle parameters, up to a token that begins with ':': from there the
\* whole rest of the line, without that colon, spaces and colons kept, is
\* the last parameter; an empty middle token (nothing behind the command's
\* space, two spaces in a row, a space at the end of a middle parameter)
\* gives TooManySpacesInMiddleParams.
C22_Params ==
    (codecPos # "start" /\ message.err \in {"Ok", "TooManySpacesInMiddleParams"})
    => IF \A i \in 1..Len(C21_Rest) : C21_Rest[i] # " "
       THEN message.err = "Ok" /\ message.params = <<>>
       ELSE LET P == C22_ParamsPart
                c == C22_Colon
                M == C22_Middle
                emptyToken ==
                    c # 1 /\ (\/ M = <<>>
                              \/ M[1] = " "
                              \/ M[Len(M)] = " "
                              \/ \E i \in 1..(Len(M) - 1) :
                                    M[i] = " " /\ M[i + 1] = " ")
                ps == message.params
                n == Len(ps)
                middles == IF c = 0 THEN ps ELSE SubSeq(ps, 1, n - 1)
            IN  /\ emptyToken <=> message.err = "TooManySpacesInMiddleParams"
                /\ message.err = "Ok"
                     => /\ n >= 1
                        /\ c # 0 => ps[n] = SubSeq(P, c + 1, Len(P))
                        /\ \A k \in 1..Len(middles) :
                              /\ middles[k] # <<>>
                              /\ \A i \in 1..Len(middles[k]) : middles[k][i] # " "
                        /\ c # 1 => C22_Join(middles) = M
                        /\ c = 1 => middles = <<>>

\* a middle parameter, then a trailing parameter that keeps its space and
\* its second colon
C22_Witness ==
    /\ codecPos = "parsed"
    /\ source = <<"1", "1", " ", "s", " ", ":", " ", ":">>
    /\ message.params = << <<"s">>, <<" ", ":">> >>

\* --------------------------------------------------------------- C23
\* how often ch stands in s
RECURSIVE CountOf(_, _)
CountOf(s, ch) ==
    IF s = <<>> THEN 0
    ELSE (IF s[1] = ch THEN 1 ELSE 0) + CountOf(Tail(s), ch)

\* C23: for every tag value v, unescaping the escaped v gives v; the line
\* of a message with such values has no raw ';', space, CR or LF inside a
\* tag value (its only space ends the tags, its only ';' separate tags)
\* and parses back to the same tag map; a tag written without '=' parses
\* to a tag with no value, an empty value stays an empty value.
C23_EscapingLossless ==
    /\ codecPos = "built"
         => \A k \in DOMAIN message.tags :
                message.tags[k] # None =>
                    DecodeTagValue(EncodeTagValue(message.tags[k][1]))
                        = message.tags[k][1]
    /\ codecPos \in {"formatted", "reparsed"}
         => /\ CountOf(raw, " ") = 1
            /\ CountOf(raw, "\r") = 0
            /\ CountOf(raw, "\n") = 0
            /\ CountOf(raw, ";") = Cardinality(DOMAIN message.tags) - 1
            /\ CountOf(raw, "=") > 0 <=> message.tags[<<"s">>] # None
    /\ codecPos = "reparsed"
         => /\ reparsed.err = "Ok"
            /\ reparsed.tags = message.tags
            /\ reparsed.tags[<<"s">>] = <<>> <=> CountOf(raw, "=") = 0

\* a value holding all five escaped characters came back unchanged
C23_Witness ==
    /\ codecPos = "reparsed"
    /\ message.tags[<<"s">>] = << <<"\\", ";", " ", "\r", "\n">> >>
    /\ reparsed = message

\* --------------------------------------------------------------- C24
\* how many commands of type t wait on the command channel
Waiting(t) == Cardinality({k \in DOMAIN cmdq : cmdq[k].type = t})

\* C24: no SendError, IncomingMessage, SendPing or CheckPong is handled
\* while Initializing and no TransportInitFinished while Open, so no
\* unreachable!() is entered; the init task enqueues its result at most
\* once; the forwarders and the pinger exist only once the state was Open.
C24_NoUnreachable ==
    [][/\ \A t \in {"SendError", "IncomingMessage", "SendPing", "CheckPong"} :
            Handles(t) => state # "Initializing"
       /\ Handles("TransportInitFinished") => state # "Open"
       /\ ~panicked'
       /\ Waiting("TransportInitFinished")' <= 1
       /\ (initTask = "done" \/ lastProc.type = "TransportInitFinished")
            => Waiting("TransportInitFinished")'
                 <= Waiting("TransportInitFinished")
       /\ state' = "Initializing"
            => inTask' = "none" /\ outTask' = "none" /\ pingTask' = "none"]_vars

\* the pinger's check was handled in Open, after the one init result
C24_Witness ==
    /\ initTask = "done"
    /\ lastProc.st = "Open"
    /\ lastProc.type = "CheckPong"
    /\ ~panicked

\* --------------------------------------------------------------- C25
\* C25: a PING handled while Open puts exactly one PONG at the back of the
\* outgoing queue and leaves the state Open and pong_received as it was; a
\* PING handled while Closed puts nothing on the outgoing queue.
C25_PingAnswered ==
    [][(Handles("IncomingMessage") /\ Head(cmdq).arg = "PING")
        => /\ state = "Open"
             => /\ outq' = Append(outq, OwnMsg("PONG"))
                /\ state' = "Open"
                /\ pong_received' = pong_received
           /\ state = "Closed"
             => /\ outq' = outq
                /\ state' = "Closed"]_vars

\* the PONG that answers a PING was written to the transport
C25_Witness ==
    /\ \E k \in DOMAIN wire : wire[k].kind = "PONG"
    /\ \E k \in DOMAIN pool : pool[k].arg = "PING"

\* --------------------------------------------------------------- C26
\* C26: a RECONNECT handled while Open closes the connection with
\* ReconnectCmd, and the pool gets the RECONNECT as an IncomingMessage and
\* right after it the StateClosed.
C26_Reconnect ==
    [][(Handles("IncomingMessage") /\ Head(cmdq).arg = "RECONNECT"
        /\ state = "Open")
        => /\ state' = "Closed"
           /\ reason_for_closure' = "ReconnectCmd"
           /\ Len(pool') = Len(pool) + 2
           /\ SubSeq(pool', 1, Len(pool)) = pool
           /\ pool'[Len(pool) + 1].type = "IncomingMessage"
           /\ pool'[Len(pool) + 1].arg = "RECONNECT"
           /\ pool'[Len(pool) + 2] = Cmd("StateClosed", NoMsg, "ReconnectCmd")]_vars

\* the pool holds the RECONNECT and then the closure
C26_Witness ==
    /\ state = "Closed"
    /\ reason_for_closure = "ReconnectCmd"
    /\ Len(pool) >= 2
    /\ pool[Len(pool) - 1].arg = "RECONNECT"
    /\ pool[Len(pool)].type = "StateClosed"

\* --------------------------------------------------------------- C27
\* the IncomingMessage notifications of the pool channel, in order
RECURSIVE Forwarded(_)
Forwarded(p) ==
    IF p = <<>> THEN <<>>
    ELSE (IF p[1].type = "IncomingMessage" THEN <<p[1]>> ELSE <<>>)
         \o Forwarded(Tail(p))

Opened(p) == Cardinality({k \in DOMAIN p : p[k].type = "StateOpen"})

\* the step that handles the init result res
InitResultHandled(ok) ==
    /\ Handles("TransportInitFinished")
    /\ state = "Initializing"
    /\ (Head(cmdq).arg \in {"OkToken", "OkNoToken"}) = ok

\* a step of a connection that sends StateOpen exactly if emits holds: a
\* successful init result appends one StateOpen (or nothing) while the
\* state becomes Open and no IncomingMessage was sent yet, a failed one
\* sends none, and no other step sends or removes one
OpenedStep(emits) ==
    /\ InitResultHandled(TRUE)
        => /\ state' = "Open"
           /\ Forwarded(pool) = <<>>
           /\ pool' = IF emits
                      THEN Append(pool, Cmd("StateOpen", NoMsg, ""))
                      ELSE pool
           /\ Opened(pool') = IF emits THEN 1 ELSE 0
    /\ InitResultHandled(FALSE)
        => /\ state' = "Closed"
           /\ Opened(pool') = 0
    /\ ~InitResultHandled(TRUE) => Opened(pool') = Opened(pool)
    /\ state' = "Initializing" => Opened(pool') = 0

\* C28 as stated: a successful init sends exactly one StateOpen to the pool
\* at the transition Initializing -> Open, before any IncomingMessage; a
\* failed init sends none.
C28_Original ==
    [][OpenedStep(TRUE)]_vars

\* C28: built with the metrics-collection feature, a successful init sends
\* exactly one StateOpen to the pool at the transition Initializing -> Open,
\* before any IncomingMessage, and a failed init sends none; built without
\* the feature (the default), no StateOpen is ever sent.
C28_OpenedWithMetrics ==
    [][OpenedStep(metrics_collection)]_vars

\* a metrics build got StateOpen first and a forwarded message after it
C28_Witness ==
    /\ metrics_collection
    /\ Len(pool) >= 2
    /\ pool[1] = Cmd("StateOpen", NoMsg, "")
    /\ pool[2].type = "IncomingMessage"
    /\ Opened(pool) = 1

\* a default build is Open and has forwarded a message without StateOpen
C28_WitnessDefault ==
    /\ ~metrics_collection
    /\ state = "Open"
    /\ Forwarded(pool) # <<>>
    /\ Opened(pool) = 0

\* --------------------------------------------------------------- C29
\* the worker holds an Open state
OpenLive == state = "Open" /\ workerAlive

\* the state was Open and the Open state was dropped
LeftOpen == inTask # "none" /\ ~OpenLive

\* C29: whenever the state leaves Open, kill_incoming_loop_tx and
\* kill_pinger_tx have fired and outgoing_messages_tx is dropped, and not
\* before; the outgoing forward task ends only with its channel closed and
\* empty and no write in progress; and on a runtime that keeps polling its
\* tasks the incoming forward task, the ping task and the outgoing forward
\* task then all end.
C29_Cancellation ==
    /\ [][/\ (OpenLive /\ ~OpenLive')
               => killIn' /\ killPing' /\ ~outTxAlive'
          /\ OpenLive' => ~killIn' /\ ~killPing' /\ outTxAlive'
          /\ (killIn => killIn') /\ (killPing => killPing')
          /\ (outTask # "ended" /\ outTask' = "ended")
               => /\ ~outTxAlive
                  /\ outq = <<>>
                  /\ inflight = NoMsg
                  /\ UNCHANGED <<outq, wire>>]_vars
    /\ LeftOpen ~> (inTask = "ended" /\ pingTask = "ended"
                    /\ outTask = "ended" /\ outq = <<>>)

\* the server sent RECONNECT as the only item: the incoming task was
\* stopped by its kill signal, the pinger too, and the outgoing task wrote
\* the handshake and a message sent before the closure, then ended
C29_Witness ==
    /\ state = "Closed"
    /\ reason_for_closure = "ReconnectCmd"
    /\ reads = 1
    /\ expired = 0
    /\ ownerAlive
    /\ inTask = "ended"
    /\ pingTask = "ended"
    /\ outTask = "ended"
    /\ Len(wire) = 4

\* --------------------------------------------------------------- C30
\* a step in which the init, incoming forward, outgoing forward or ping
\* task reaches its connection_loop_tx.upgrade()
TaskSends ==
    \/ initTask # initTask'
    \/ reads' # reads
    \/ writeErrors' # writeErrors
    \/ pingDue' < pingDue
    \/ checkDue' < checkDue

\* C30: once the owning handle of the command channel is dropped, no
\* command is added to the channel any more: a send attempted by the init,
\* incoming forward, outgoing forward or ping task leaves the channel as it
\* is, the incoming forward task and the ping task end at that attempt, and
\* nothing panics; the worker handles the commands that were enqueued, one
\* by one, and on a runtime that keeps polling its tasks it then ends, and
\* the incoming forward and ping tasks are not left running.
C30_WeakHandles ==
    /\ [][~ownerAlive
            => /\ ~ownerAlive'
               /\ cmdq' = cmdq \/ (workerAlive /\ cmdq # <<>> /\ cmdq' = Tail(cmdq))
               /\ TaskSends => cmdq' = cmdq
               /\ reads' # reads => inTask' = "ended"
               /\ (pingDue' < pingDue \/ checkDue' < checkDue)
                    => pingTask' = "ended"
               /\ (workerAlive /\ ~workerAlive') => cmdq = <<>>
               /\ ~panicked']_vars
    /\ ~ownerAlive ~> (/\ ~workerAlive
                       /\ cmdq = <<>>
                       /\ inTask \in {"none", "ended"}
                       /\ pingTask \in {"none", "ended"})

\* the owner is gone and the state is still Open: the incoming forward task
\* read an item, the pinger's timer expired, neither got a command into
\* the channel, and both ended without a kill signal
C30_Witness ==
    /\ ~ownerAlive
    /\ state = "Open"
    /\ ~killIn /\ ~killPing
    /\ reads = 1
    /\ expired = 1
    /\ inTask = "ended"
    /\ pingTask = "ended"
    /\ cmdq = <<>>
    /\ Forwarded(pool) = <<>>
    /\ lastProc.type \notin {"SendPing", "IncomingMessage"}

\* --------------------------------------------------------------- C31
\* the ticks run_ping_task has taken so far: the expirations of each
\* interval less the ones still waiting to be taken
PingTicksTaken == (expired + 1) \div 2 - pingDue
CheckTicksTaken == expired \div 2 - checkDue

\* C31: the ping task sends SendPing and CheckPong strictly alternating,
\* SendPing first: no CheckPong is sent without a SendPing sent since the
\* previous CheckPong, and a task that has taken its kill signal sends
\* nothing any more.
C31_TicksAlternate ==
    [][/\ CheckTicksTaken' <= PingTicksTaken'
       /\ PingTicksTaken' <= CheckTicksTaken' + 1
       /\ pingTask = "ended"
            => /\ PingTicksTaken' = PingTicksTaken
               /\ CheckTicksTaken' = CheckTicksTaken]_vars

\* both intervals were ready when the task was polled, and its select!
\* took the check_pong_interval branch: CheckPong is in the channel and no
\* SendPing was sent
C31_CheckBeforePing ==
    /\ CheckTicksTaken = 1
    /\ PingTicksTaken = 0
    /\ \E k \in DOMAIN cmdq : cmdq[k].type = "CheckPong"

\* --------------------------------------------------------------- C32
\* the step in which transport_outgoing.send(message).await returns
WriteReturns == outTask = "writing" /\ outTask' # "writing"

\* what the outgoing forward task does when a write returns, where reports
\* tells whether a failed write puts a SendError into the command channel:
\* a failure gives one SendError (or none) and the outgoing error to the
\* notifier of the written message, a success gives Ok to that notifier and
\* no command; no other notifier is touched, the task goes back to
\* messages_rx.recv() with its channel as it was, and it ends only when
\* that channel is closed and empty
WriteStep(reports) ==
    /\ WriteReturns
        => /\ outTask' = "idle"
           /\ outq' = outq
           /\ wire' = Append(wire, inflight)
           /\ writeErrors' \in {writeErrors, writeErrors + 1}
           /\ writeErrors' = writeErrors + 1
                => /\ cmdq' = IF reports
                              THEN Append(cmdq, Cmd("SendError", NoMsg, ""))
                              ELSE cmdq
                   /\ inflight.notify
                        => outcome'[inflight.id] = "OutgoingError"
           /\ writeErrors' = writeErrors
                => /\ cmdq' = cmdq
                   /\ inflight.notify => outcome'[inflight.id] = "Ok"
           /\ inflight.notify
                => resolveCount'[inflight.id] = resolveCount[inflight.id] + 1
           /\ \A i \in Ids :
                ~(inflight.notify /\ i = inflight.id)
                    => /\ outcome'[i] = outcome[i]
                       /\ resolveCount'[i] = resolveCount[i]
    /\ (outTask # "ended" /\ outTask' = "ended")
        => ~outTxAlive /\ outq = <<>>

\* C32 as stated: a failed write always puts exactly one SendError into
\* the command channel.
C32_Original ==
    [][WriteStep(TRUE)]_vars

\* C32: a failed write of message m puts exactly one SendError into the
\* command channel if the owning handle of that channel still exists and
\* none if it was dropped; it gives the outgoing error to m's notifier and
\* to no other; the task goes on with its queue and ends only when the
\* queue is closed and empty; a successful write gives Ok to m's notifier
\* and puts no command into the channel.
C32_WriteFailure ==
    [][WriteStep(ownerAlive /\ workerAlive)]_vars

\* a Send forwarded in Open failed at the write, was reported to the loop,
\* and a Send forwarded after it was written with success
C32_Witness ==
    /\ writeErrors = 1
    /\ \E i, j \in Ids :
        /\ i < j
        /\ handledIn[i] = "Open" /\ outcome[i] = "OutgoingError"
        /\ handledIn[j] = "Open" /\ outcome[j] = "Ok"
    /\ lastProc.type = "SendError"

\* --------------------------------------------------------------- C33
\* every init task ends with a result, and one that is connecting ends
\* although its connect attempt may never complete
InitTasksEnd ==
    /\ \A c \in Conns :
        <>(initPos[c] = "end"
           /\ init_res[c] \in {"Ok"} \cup InitErrors)
    /\ \A c \in Conns :
        (initPos[c] = "connect") ~> (initPos[c] = "end")

\* the last statement of connection 1's init task, where sends tells
\* whether it puts TransportInitFinished into the command channel
InitResultSent(sends) ==
    (initTask = "running" /\ initTask' = "done")
        => /\ initPos[1] = "end"
           /\ cmdq' = IF sends
                      THEN Append(cmdq, Cmd("TransportInitFinished", NoMsg,
                                            IF init_res[1] = "Ok"
                                            THEN cmdq'[Len(cmdq')].arg
                                            ELSE init_res[1]))
                      ELSE cmdq

\* C33 as stated: the init task enqueues TransportInitFinished and the
\* state becomes Open or Closed.
C33_Original ==
    /\ InitTasksEnd
    /\ [][InitResultSent(TRUE)]_vars
    /\ <>(state \in {"Open", "Closed"})

\* C33: every init task ends (success, login failure, connect failure, or
\* connect timeout when the attempt does not complete in connect_timeout);
\* while the owner of the connection keeps it, the init task then enqueues
\* TransportInitFinished and the state becomes Open or Closed; if the owner
\* drops the connection first, nothing is enqueued and the worker ends with
\* the state still Initializing.
C33_LeavesInitializing ==
    /\ InitTasksEnd
    /\ <>(state \in {"Open", "Closed"} \/ (~ownerAlive /\ ~workerAlive))
    /\ [][InitResultSent(ownerAlive)]_vars
    /\ [](state = "Closed" => reason_for_closure = init_res[1])
    /\ [](state = "Open" => init_res[1] = "Ok")

\* the connect attempt of connection 1 did not complete: its timeout ended
\* it and the connection is Closed with ConnectTimeout
C33_Witness ==
    /\ init_res[1] = "ConnectTimeout"
    /\ state = "Closed"
    /\ reason_for_closure = "ConnectTimeout"
    /\ ownerAlive

\* --------------------------------------------------------------- C34
\* a parameter that can only be written in trailing form
NeedsTrailing(pa) == pa = <<>> \/ IndexOf(pa, " ") # 0 \/ pa[1] = ":"

\* the position of the first such parameter, Len(ps) + 1 if there is none
FirstTrailing(ps) ==
    CHOOSE i \in 1..(Len(ps) + 1) :
        /\ i <= Len(ps) => NeedsTrailing(ps[i])
        /\ \A j \in 1..(i - 1) : ~NeedsTrailing(ps[j])

\* the parameters 1..n of ps, each in middle form
RECURSIVE MiddleForm(_, _)
MiddleForm(ps, n) ==
    IF n = 0 THEN <<>> ELSE MiddleForm(ps, n - 1) \o <<" ">> \o ps[n]

OnlyLastTrailing(ps) ==
    \A k \in 1..(Len(ps) - 1) :
        /\ ps[k] # <<>>
        /\ \A i \in 1..Len(ps[k]) : ps[k][i] # " "
        /\ ps[k][1] # ":"

\* C35: in every message parse returns, every parameter but the last is
\* not empty, has no space and does not begin with ':'.
C35_OnlyLastTrailing ==
    /\ (codecPos # "start" /\ message.err = "Ok")
            => OnlyLastTrailing(message.params)
    /\ (codecPos = "reparsed" /\ reparsed.err = "Ok")
            => OnlyLastTrailing(reparsed.params)

\* "s s :" parsed: a middle parameter and an empty last parameter
C35_Witness ==
    /\ codecPos = "parsed"
    /\ source = <<"s", " ", "s", " ", ":">>
    /\ message.err = "Ok"
    /\ message.params = << <<"s">>, <<>> >>

\* --------------------------------------------------------------- C36
\* the line is X, a space and p, where p can be a middle parameter and X
\* is a valid line up to its middle parameters: X parses, and the line
\* parses to one parameter more than X (a trailing parameter in X would
\* take up p instead)
MiddleSplit(line, i) ==
    LET X == SubSeq(line, 1, i - 1)
        pa == From(line, i + 1)
    IN  /\ line[i] = " "
        /\ pa # <<>>
        /\ \A k \in 1..Len(pa) : pa[k] # " "
        /\ pa[1] # ":"
        /\ Parse(X).err = "Ok"
        /\ Parse(line).err = "Ok"
        /\ Len(Parse(line).params) = Len(Parse(X).params) + 1

\* C36: for a valid line X up to its middle parameters and a parameter p
\* that is not empty, has no space and does not begin with ':', the lines
\* X + " " + p and X + " :" + p parse to the same message, whose last
\* parameter is p.
C36_MiddleEqualsTrailing ==
    codecPos = "parsed"
        => \A i \in 1..Len(source) :
              MiddleSplit(source, i)
                => LET X == SubSeq(source, 1, i - 1)
                       pa == From(source, i + 1)
                   IN  /\ Parse(X \o <<" ", ":">> \o pa) = message
                       /\ message.params = Append(Parse(X).params, pa)

\* "s s s" was parsed, and "s s :s" parses to the same message
C36_Witness ==
    /\ codecPos = "parsed"
    /\ source = <<"s", " ", "s", " ", "s">>
    /\ MiddleSplit(source, 4)
    /\ Parse(<<"s", " ", "s", " ", ":", "s">>) = message
    /\ message.params = << <<"s">>, <<"s">> >>

\* --------------------------------------------------------------- C37
\* StateClosed was sent on connection_incoming_tx
ClosedSent(p) == \E k \in DOMAIN p : p[k].type = "StateClosed"

\* C37: once StateClosed was sent to the pool nothing more is sent to it,
\* no IncomingMessage and no StateOpen, whatever is still handled from the
\* command channel; so StateClosed is the last item the pool gets.
C37_ClosedIsLast ==
    [][/\ ClosedSent(pool) => pool' = pool
       /\ \A k \in DOMAIN pool' :
            pool'[k].type = "StateClosed" => k = Len(pool')]_vars

\* the server sent RECONNECT and then another message: the second was
\* still in the command channel when the connection closed, it was handled
\* while Closed, and StateClosed is still the last the pool got
C37_Witness ==
    /\ metrics_collection
    /\ state = "Closed"
    /\ lastProc.st = "Closed"
    /\ lastProc.type = "IncomingMessage"
    /\ lastProc.arg = "OTHER"
    /\ reads = 2
    /\ Len(pool) = 3
    /\ pool[1].type = "StateOpen"
    /\ pool[2].type = "IncomingMessage"
    /\ pool[3] = Cmd("StateClosed", NoMsg, "ReconnectCmd")

\* --------------------------------------------------------------- C38
\* C38: the connection is closed with PingTimeout only after a SendPing
\* was handled in Open, so a PING was handed to the outgoing forward task,
\* and with no PONG handled since the latest such SendPing.
C38_TimeoutOnlyAfterPing ==
    [][(state = "Open" /\ state' = "Closed"
        /\ reason_for_closure' = "PingTimeout")
        => /\ pingProcessed
           /\ ~pongSincePing
           /\ \/ \E k \in DOMAIN wire : wire[k] = OwnMsg("PING")
              \/ \E k \in DOMAIN outq : outq[k] = OwnMsg("PING")
              \/ inflight = OwnMsg("PING")]_vars

\* the connection is closed with PingTimeout and no PING was ever queued,
\* written or being written
C38_TimeoutWithoutPing ==
    /\ state = "Closed"
    /\ reason_for_closure = "PingTimeout"
    /\ ~pingProcessed
    /\ \A k \in DOMAIN wire : wire[k] # OwnMsg("PING")
    /\ \A k \in DOMAIN outq : outq[k] # OwnMsg("PING")
    /\ inflight # OwnMsg("PING")

\* --------------------------------------------------------------- C39
\* every message given to outgoing_messages_tx so far, in the order of the
\* sends: the ones written, the one being written, the ones waiting
OutLog ==
    wire \o (IF outTask = "writing" THEN <<inflight>> ELSE <<>>) \o outq

\* q starts with p
IsPrefix(p, q) == Len(p) <= Len(q) /\ SubSeq(q, 1, Len(p)) = p

\* C39: what the Open state forwards to the outgoing forward task is
\* written in the order it was forwarded, each message once, whether or
\* not the connection is Closed meanwhile: the forwarded messages are only
\* ever added to at the end, nothing is taken out or written twice; a
\* notifier of a forwarded message is used at that message's write and
\* only there; and on a runtime that keeps polling the task, with writes
\* that end, everything forwarded gets written.
C39_ForwardedIsWritten ==
    /\ [][/\ IsPrefix(OutLog, OutLog')
          /\ IsPrefix(wire, wire')
          /\ Len(wire') <= Len(wire) + 1
          /\ wire' # wire
                => /\ outTask = "writing"
                   /\ wire' = Append(wire, inflight)
                   /\ inflight.notify
                        => /\ outcome[inflight.id] = "pending"
                           /\ outcome'[inflight.id] \in {"Ok", "OutgoingError"}
                           /\ (outcome'[inflight.id] = "OutgoingError")
                                = (writeErrors' = writeErrors + 1)]_vars
    /\ [](\A j, k \in DOMAIN OutLog :
            (j # k /\ OutLog[j].kind = "APP") => OutLog[j] # OutLog[k])
    /\ [](\A k \in DOMAIN OutLog :
            OutLog[k].notify
                => IF k <= Len(wire)
                   THEN /\ outcome[OutLog[k].id] \in {"Ok", "OutgoingError"}
                        /\ resolveCount[OutLog[k].id] = 1
                   ELSE /\ outcome[OutLog[k].id] = "pending"
                        /\ resolveCount[OutLog[k].id] = 0)
    /\ []<>(OutLog = wire)

\* a Send was forwarded while Open, the connection closed with the Send
\* still waiting, and the Send was written after that, as the last of the
\* forwarded messages, and got Ok
C39_Witness ==
    /\ state = "Closed"
    /\ OutLog = wire
    /\ Len(wire) >= 4
    /\ \E i \in atClose :
        /\ handledIn[i] = "Open"
        /\ wire[Len(wire)] = AppMsg(i, TRUE)
        /\ outcome[i] = "Ok"

\* --------------------------------------------------------------- C40
\* the permits out of the semaphore: held by an init task or by a
\* release_permit_task
PermitsOut ==
    Cardinality({c \in Conns : rate_limit_permit[c] \in {"init", "release_task"}})

====
